---- MODULE Spec2Model ----
(***************************************************************************)
(* Model of the plan aggregation of salad-golem-stats                      *)
(* (src/data-collection/process_plans.py): the node_plan usage records,    *)
(* the three aggregation queries, and the three rollup tables the script   *)
(* inserts into.                                                           *)
(*                                                                         *)
(* Numbers: SQLite computes the durations and resource-hours in floating   *)
(* point; the model computes them as exact reduced fractions [n, d], so    *)
(* two values are equal exactly when the fractions are.                    *)
(***************************************************************************)
EXTENDS Integers, FiniteSets, Sequences, Bags, TLC

(***************************************************************************)
(* Bounds of the model                                                     *)
(***************************************************************************)
\* at most this many rows in node_plan
MaxRecords == 2

(***************************************************************************)
(* Exact fractions                                                         *)
(***************************************************************************)
RECURSIVE GCD(_, _)
GCD(a, b) == IF b = 0 THEN a ELSE GCD(b, a % b)

Abs(x) == IF x < 0 THEN -x ELSE x

\* the fraction n/d (d > 0) in lowest terms
Rat(n, d) ==
    LET g == GCD(Abs(n), d)
    IN  [n |-> n \div g, d |-> d \div g]

RatInt(k) == [n |-> k, d |-> 1]
RatAdd(a, b) == Rat(a.n * b.d + b.n * a.d, a.d * b.d)
RatMulInt(a, k) == Rat(a.n * k, a.d)
RatDivInt(a, k) == Rat(a.n, a.d * k)

\* SUM over the rows S of the column F (a function of the row); SQL's SUM
\* adds the value of every row, equal values included
RECURSIVE RatSum(_, _)
RatSum(S, F) ==
    IF S = {} THEN RatInt(0)
    ELSE LET x == CHOOSE y \in S : TRUE
         IN  RatAdd(F[x], RatSum(S \ {x}, F))

RECURSIVE IntSum(_, _)
IntSum(S, F) ==
    IF S = {} THEN 0
    ELSE LET x == CHOOSE y \in S : TRUE
         IN  F[x] + IntSum(S \ {x}, F)

\* MAX over the rows S (not empty) of the column F
RECURSIVE IntMax(_, _)
IntMax(S, F) ==
    LET x == CHOOSE y \in S : TRUE
    IN  IF S = {x} THEN F[x]
        ELSE LET m == IntMax(S \ {x}, F)
             IN  IF F[x] > m THEN F[x] ELSE m

(***************************************************************************)
(* node_plan rows                                                          *)
(***************************************************************************)
\* SQL NULL in a text column
NULL == "<null>"

\* the organizations the queries keep
filter_organizations == {"team352", "realfake", "phrasly", "sugarlab"}

MsPerSecond == 1000
SecondsPerHour == 3600
SecondsPerDay == 86400
MbPerGb == 1024

\* the values the rows of node_plan are drawn from.  Times are milliseconds
\* since the epoch; day 1 starts at 86400000.
\*   23:30 of day 0 to 00:30 of day 1: starts in another hour and day
\*   00:15 to 00:45 of day 1: stops in the same hour as the first
\*   01:00 to 01:30 of day 1: stops in the same day, another hour
Usages ==
    { [start_at |-> 84600000, stop_at |-> 88200000, ram |-> 1000, cpu |-> 2000, invoice_amount |-> 3],
      [start_at |-> 87300000, stop_at |-> 89100000, ram |-> 2000, cpu |-> 1000, invoice_amount |-> 5],
      [start_at |-> 90000000, stop_at |-> 91800000, ram |-> 500, cpu |-> 500, invoice_amount |-> 2] }
NodeIds == {"A", "B"}
GpuClassIds == {NULL, "", "X100", "Y200"}
OrgNames == {"team352"}

PlanRows ==
    { [org_name |-> o, node_id |-> n, start_at |-> u.start_at, stop_at |-> u.stop_at,
       gpu_class_id |-> g, invoice_amount |-> u.invoice_amount,
       ram |-> u.ram, cpu |-> u.cpu] :
        o \in OrgNames, n \in NodeIds, g \in GpuClassIds, u \in Usages }

\* rows no well-formed import produces: stop_at before start_at (01:00 back
\* to 00:30 of day 1), and no node_id
MalformedRows ==
    { r \in { [org_name |-> "team352", node_id |-> n, start_at |-> u.start_at, stop_at |-> u.stop_at,
               gpu_class_id |-> g, invoice_amount |-> 1, ram |-> 4000, cpu |-> 3000] :
                 g \in {NULL, "X100"},
                 n \in {"A", NULL},
                 u \in { [start_at |-> 90000000, stop_at |-> 88200000],
                         [start_at |-> 84600000, stop_at |-> 88200000] } } :
        r.stop_at < r.start_at \/ r.node_id = NULL }

(***************************************************************************)
(* The columns the queries derive from one row of node_plan                *)
(***************************************************************************)
\* WHERE 1=1 AND org_name IN (...)
org_filter_clause(r) == r.org_name \in filter_organizations

\* the start of the hour of start_at instead
hour_of_start_at(r) == ((r.start_at \div MsPerSecond) \div SecondsPerHour) * SecondsPerHour

\* strftime('%Y-%m-%d %H:00:00', stop_at / 1000, 'unixepoch'): the start of
\* the hour of stop_at, in seconds since the epoch
hour(r) == ((r.stop_at \div MsPerSecond) \div SecondsPerHour) * SecondsPerHour

\* strftime('%Y-%m-%d', stop_at / 1000, 'unixepoch'): the start of the day
day(r) == ((r.stop_at \div MsPerSecond) \div SecondsPerDay) * SecondsPerDay

\* (stop_at - start_at) / 1000.0
duration_seconds(r) == Rat(r.stop_at - r.start_at, MsPerSecond)

\* (stop_at - start_at) / 1000.0 / 3600.0
duration_hours(r) == RatDivInt(duration_seconds(r), SecondsPerHour)

\* a CASE that tests IS NULL only
gpu_group_null_only(r) ==
    IF r.gpu_class_id = NULL THEN "no_gpu" ELSE r.gpu_class_id

\* CASE WHEN gpu_class_id IS NULL OR gpu_class_id = '' THEN 'no_gpu' ELSE gpu_class_id END
gpu_group(r) ==
    IF r.gpu_class_id = NULL \/ r.gpu_class_id = "" THEN "no_gpu" ELSE r.gpu_class_id

\* ram * duration_hours / 1024
ram_hours(r) == RatDivInt(RatMulInt(duration_hours(r), r.ram), MbPerGb)

\* cpu * duration_hours
cpu_hours(r) == RatMulInt(duration_hours(r), r.cpu)

invoice_amount(r) == r.invoice_amount
ram(r) == r.ram
cpu(r) == r.cpu

(***************************************************************************)
(* query: the hourly statistics (base, breakdown, gpu_total, total)        *)
(***************************************************************************)
\* the rows of node_plan the base CTE keeps
base(plans) == { r \in plans : org_filter_clause(r) }

\* one output row of a GROUP BY over the base rows S
stats_row(h, g, S) ==
    [ hour |-> h, gpu_group |-> g,
      total_time_seconds |-> RatSum(S, [r \in S |-> duration_seconds(r)]),
      total_time_hours |-> RatSum(S, [r \in S |-> duration_hours(r)]),
      total_invoice_amount |-> IntSum(S, [r \in S |-> invoice_amount(r)]),
      total_ram_hours |-> RatSum(S, [r \in S |-> ram_hours(r)]),
      total_cpu_hours |-> RatSum(S, [r \in S |-> cpu_hours(r)]),
      total_transaction_count |-> Cardinality(S) ]

\* GROUP BY hour, gpu_group
breakdown(plans) ==
    LET b == base(plans)
    IN  { stats_row(k[1], k[2], { r \in b : hour(r) = k[1] /\ gpu_group(r) = k[2] }) :
            k \in { <<hour(r), gpu_group(r)>> : r \in b } }

\* the any_gpu rows without the WHERE clause
gpu_total_unfiltered(plans) ==
    LET b == base(plans)
    IN  { stats_row(h, "any_gpu", { r \in b : hour(r) = h }) : h \in { hour(r) : r \in b } }

\* WHERE gpu_group != 'no_gpu' GROUP BY hour
gpu_total(plans) ==
    LET b == { r \in base(plans) : gpu_group(r) # "no_gpu" }
    IN  { stats_row(h, "any_gpu", { r \in b : hour(r) = h }) : h \in { hour(r) : r \in b } }

\* GROUP BY hour
total(plans) ==
    LET b == base(plans)
    IN  { stats_row(h, "all", { r \in b : hour(r) = h }) : h \in { hour(r) : r \in b } }

\* SELECT * FROM total UNION ALL SELECT * FROM gpu_total UNION ALL SELECT * FROM breakdown:
\* the result rows as a bag (UNION ALL keeps equal rows)
query(plans) == SetToBag(total(plans)) (+) SetToBag(gpu_total(plans)) (+) SetToBag(breakdown(plans))

\* the tuples handed to insert_hourly_gpu_stats: the result rows, column by column
hourly_gpu_stats_data(plans) == query(plans)

(***************************************************************************)
(* daily_query and distinct_hour_query: distinct nodes with their maximal  *)
(* ram and cpu                                                             *)
(***************************************************************************)
\* SUM(ram) in the place of MAX(ram)
sum_ram(S) == IntSum(S, [r \in S |-> ram(r)])

\* MAX(ram), MAX(cpu) over the node_plan rows S of one group
max_ram(S) == IntMax(S, [r \in S |-> ram(r)])
max_cpu(S) == IntMax(S, [r \in S |-> cpu(r)])

\* GROUP BY bucket, node_id, gpu_group over the base rows b, B[r] being the
\* bucket column of row r
per_node(b, B) ==
    { [ bucket |-> k[1], node_id |-> k[2], gpu_group |-> k[3],
        max_ram |-> max_ram({ r \in b : B[r] = k[1] /\ r.node_id = k[2] /\ gpu_group(r) = k[3] }),
        max_cpu |-> max_cpu({ r \in b : B[r] = k[1] /\ r.node_id = k[2] /\ gpu_group(r) = k[3] }) ] :
        k \in { <<B[r], r.node_id, gpu_group(r)>> : r \in b } }

per_node_day(plans) == per_node(base(plans), [r \in base(plans) |-> day(r)])
per_node_hour(plans) == per_node(base(plans), [r \in base(plans) |-> hour(r)])

\* COUNT(DISTINCT node_id): NULL is not counted
count_distinct_node_id(S) == Cardinality({ x.node_id : x \in S } \ {NULL})

\* one output row of a GROUP BY over the per-node rows S
distinct_row(t, g, S) ==
    [ bucket |-> t, gpu_group |-> g,
      unique_node_count |-> count_distinct_node_id(S),
      total_max_ram |-> IntSum(S, [x \in S |-> x.max_ram]),
      total_max_cpu |-> IntSum(S, [x \in S |-> x.max_cpu]) ]

\* GROUP BY bucket
all_nodes(pn) ==
    { distinct_row(t, "all", { x \in pn : x.bucket = t }) : t \in { x.bucket : x \in pn } }

\* the any_gpu rows without the WHERE clause
any_gpu_unfiltered(pn) ==
    { distinct_row(t, "any_gpu", { x \in pn : x.bucket = t }) : t \in { x.bucket : x \in pn } }

\* WHERE gpu_group != 'no_gpu' GROUP BY bucket
any_gpu(pn) ==
    LET s == { x \in pn : x.gpu_group # "no_gpu" }
    IN  { distinct_row(t, "any_gpu", { x \in s : x.bucket = t }) : t \in { x.bucket : x \in s } }

\* WHERE gpu_group = 'no_gpu' GROUP BY bucket
no_gpu(pn) ==
    LET s == { x \in pn : x.gpu_group = "no_gpu" }
    IN  { distinct_row(t, "no_gpu", { x \in s : x.bucket = t }) : t \in { x.bucket : x \in s } }

\* WHERE gpu_group != 'no_gpu' GROUP BY bucket, gpu_group
by_gpu_class(pn) ==
    LET s == { x \in pn : x.gpu_group # "no_gpu" }
    IN  { distinct_row(k[1], k[2], { x \in s : x.bucket = k[1] /\ x.gpu_group = k[2] }) :
            k \in { <<x.bucket, x.gpu_group>> : x \in s } }

\* all_nodes UNION ALL any_gpu UNION ALL no_gpu UNION ALL by_gpu_class
distinct_union(pn) ==
    SetToBag(all_nodes(pn)) (+) SetToBag(any_gpu(pn)) (+) SetToBag(no_gpu(pn))
        (+) SetToBag(by_gpu_class(pn))

daily_query(plans) == distinct_union(per_node_day(plans))
distinct_hour_query(plans) == distinct_union(per_node_hour(plans))

\* a bag with every row x replaced by F[x]
MapBag(bag, F) ==
    LET S == BagToSet(bag)
        T == { F[x] : x \in S }
    IN  [ y \in T |-> IntSum({ x \in S : F[x] = y }, [x \in S |-> bag[x]]) ]

\* the tuples handed to insert_daily_distinct_counts: (day, gpu_group,
\* unique_node_count, total_max_ram, total_max_cpu) into the columns (day,
\* gpu_group, unique_node_count, unique_node_ram, unique_node_cpu)
daily_distinct_data(plans) ==
    LET res == daily_query(plans)
    IN  MapBag(res, [ x \in BagToSet(res) |->
            [ day |-> x.bucket, gpu_group |-> x.gpu_group,
              unique_node_count |-> x.unique_node_count,
              unique_node_ram |-> x.total_max_ram,
              unique_node_cpu |-> x.total_max_cpu ] ])

\* the tuples handed to insert_hourly_distinct_counts
hour_distinct_data(plans) ==
    LET res == distinct_hour_query(plans)
    IN  MapBag(res, [ x \in BagToSet(res) |->
            [ hour |-> x.bucket, gpu_group |-> x.gpu_group,
              unique_node_count |-> x.unique_node_count,
              unique_node_ram |-> x.total_max_ram,
              unique_node_cpu |-> x.total_max_cpu ] ])

(***************************************************************************)
(* The rollup tables and the INSERT                                        *)
(***************************************************************************)
VARIABLES
    node_plan,               \* the rows of the node_plan table of plans.db
    hourly_gpu_stats,        \* the rollup tables: bags of rows
    daily_distinct_counts,
    hourly_distinct_counts,
    pc,                      \* where each run of the script stands
    run_result,              \* how each process's last run ended: "ok", or the insert that raised
    runs_ended,              \* runs ended over the present content of node_plan: 0, 1, 2 (or more)
    tables_at_start,         \* the rollup tables when the runs now running began
    batch                    \* the processes started since then

\* the state of the backend (src/backend/main.py)
VARIABLES
    now,                     \* datetime.now(timezone.utc), in seconds since the epoch
    placeholder_transactions, \* the rows of the placeholder_transactions table
    executed,                \* the tables the queries of the last request were executed on, in order
    gpu_class_names,         \* the GPU class directory loaded at startup
    rows,                    \* the rows a metrics query has fetched
    request,                 \* the request the backend answered last
    response                 \* the last response of the backend

\* the cache of the backend (cache_response, src/backend/main.py)
VARIABLES
    redis_client,            \* "none" when the connection failed at startup, else "redis"
    cache,                   \* the keys held by Redis, each with its value and the time it expires
    wrapper                  \* what the wrapper did for the last request: the get, the calls of func, the set

\* the ingest loop (src/data-collection/get_data.py)
VARIABLES
    loop_pc,                 \* where the loop stands
    slept,                   \* the seconds slept since the last run ended
    logged,                  \* what the last run printed at its end: "done" or "error"
    raised_at,               \* the step of main() that raised in the present run, or "none"
    snapshots                \* the runs that have written their snapshot rows (counted up to MaxSnapshots)

plan_vars == <<node_plan, hourly_gpu_stats, daily_distinct_counts, hourly_distinct_counts,
               pc, run_result, runs_ended, tables_at_start, batch>>
backend_vars == <<now, placeholder_transactions, executed, gpu_class_names, rows, request, response>>
cache_vars == <<redis_client, cache, wrapper>>
ingest_vars == <<loop_pc, slept, logged, raised_at, snapshots>>
vars == <<plan_vars, backend_vars, cache_vars, ingest_vars>>

\* the processes that may run the script
Procs == {"A", "B"}

\* the (time_bucket, gpu_group) key of a rollup row
row_key(row) ==
    IF "day" \in DOMAIN row THEN <<row.day, row.gpu_group>> ELSE <<row.hour, row.gpu_group>>

\* PRIMARY KEY (time_bucket, gpu_group) of the rollup tables: inserting data
\* into table would give two rows with one key
primary_key_violation(table, data) ==
    \/ \E d \in BagToSet(data) : data[d] > 1
    \/ \E d, e \in BagToSet(data) : d # e /\ row_key(d) = row_key(e)
    \/ \E d \in BagToSet(data) : \E t \in BagToSet(table) : row_key(d) = row_key(t)

\* the sum of two rollup rows of one key, column by column
add_rows(t, d) ==
    IF "total_time_seconds" \in DOMAIN t
    THEN [t EXCEPT !.total_time_seconds = RatAdd(@, d.total_time_seconds),
                   !.total_time_hours = RatAdd(@, d.total_time_hours),
                   !.total_invoice_amount = @ + d.total_invoice_amount,
                   !.total_ram_hours = RatAdd(@, d.total_ram_hours),
                   !.total_cpu_hours = RatAdd(@, d.total_cpu_hours),
                   !.total_transaction_count = @ + d.total_transaction_count]
    ELSE [t EXCEPT !.unique_node_count = @ + d.unique_node_count,
                   !.unique_node_ram = @ + d.unique_node_ram,
                   !.unique_node_cpu = @ + d.unique_node_cpu]

\* an insert that resolves a key conflict by adding the new values to the
\* stored ones (ON CONFLICT ... DO UPDATE SET x = x + EXCLUDED.x)
executemany_accumulate(table, data) ==
    LET T == BagToSet(table)
        D == BagToSet(data)
        hit(t) == { d \in D : row_key(d) = row_key(t) }
    IN  [raised |-> FALSE,
         table |-> SetToBag({ IF hit(t) = {} THEN t ELSE add_rows(t, CHOOSE d \in hit(t) : TRUE) : t \in T }
                            \cup { d \in D : \A t \in T : row_key(t) # row_key(d) })]

\* cur.executemany("INSERT INTO table ... VALUES ...", data); conn.commit():
\* the rows are inserted in one transaction, which is committed only when no
\* INSERT raised; an exception leaves the function before the commit
executemany_insert(table, data) ==
    IF primary_key_violation(table, data)
    THEN [raised |-> TRUE, table |-> table]
    ELSE [raised |-> FALSE, table |-> table (+) data]

insert_hourly_gpu_stats(data) == executemany_insert(hourly_gpu_stats, data)
insert_daily_distinct_counts(data) == executemany_insert(daily_distinct_counts, data)
insert_hourly_distinct_counts(data) == executemany_insert(hourly_distinct_counts, data)

tables == [stats |-> hourly_gpu_stats, daily |-> daily_distinct_counts,
           hourly |-> hourly_distinct_counts]

\* the whole try block run alone on the rollup tables t: the three inserts in
\* order, the first exception ending the run
single_run(t, plans) ==
    LET s == executemany_insert(t.stats, hourly_gpu_stats_data(plans))
        d == executemany_insert(t.daily, daily_distinct_data(plans))
        h == executemany_insert(t.hourly, hour_distinct_data(plans))
    IN  IF s.raised THEN [raised |-> TRUE, tables |-> t]
        ELSE IF d.raised THEN [raised |-> TRUE, tables |-> [t EXCEPT !.stats = s.table]]
        ELSE [raised |-> h.raised,
              tables |-> [stats |-> s.table, daily |-> d.table, hourly |-> h.table]]

(***************************************************************************)
(* The run of the script                                                   *)
(***************************************************************************)
PlanInit ==
    /\ node_plan = {}
    /\ hourly_gpu_stats = EmptyBag
    /\ daily_distinct_counts = EmptyBag
    /\ hourly_distinct_counts = EmptyBag
    /\ pc = [p \in Procs |-> "idle"]
    /\ run_result = [p \in Procs |-> "none"]
    /\ runs_ended = 0
    /\ tables_at_start = tables
    /\ batch = {}

\* the backend before any request: nothing loaded, nothing fetched
BackendIdle ==
    /\ now = 0
    /\ placeholder_transactions = {}
    /\ executed = << >>
    /\ gpu_class_names = << >>
    /\ rows = << >>
    /\ request = [endpoint |-> "none"]
    /\ response = [status |-> 0]

\* no cache, and the ingest loop not started
CacheIdle ==
    /\ redis_client = "none"
    /\ cache = {}
    /\ wrapper = [get |-> "none", func |-> 0, set |-> "none"]

IngestIdle ==
    /\ loop_pc = "while"
    /\ slept = 0
    /\ logged = "none"
    /\ raised_at = "none"
    /\ snapshots = 0

Init == PlanInit /\ BackendIdle /\ CacheIdle /\ IngestIdle

\* a row is added to node_plan (plans.db is written between runs)
AddPlan(r) ==
    /\ \A p \in Procs : pc[p] = "idle"
    /\ Cardinality(node_plan) < MaxRecords
    /\ r \notin node_plan
    /\ node_plan' = node_plan \cup {r}
    /\ runs_ended' = 0
    /\ batch' = {}
    /\ run_result' = [p \in Procs |-> "none"]
    /\ tables_at_start' = tables
    /\ UNCHANGED <<hourly_gpu_stats, daily_distinct_counts, hourly_distinct_counts, pc>>
    /\ UNCHANGED <<backend_vars, cache_vars, ingest_vars>>

\* the count of ended runs, kept to 0, 1, 2
one_more(n) == IF n < 2 THEN n + 1 ELSE n

\* the script is started: it connects to plans.db
StartRun(p) ==
    /\ pc[p] = "idle"
    /\ pc' = [pc EXCEPT ![p] = "stats"]
    /\ run_result' = [run_result EXCEPT ![p] = "none"]
    /\ tables_at_start' = IF \A q \in Procs : pc[q] = "idle" THEN tables ELSE tables_at_start
    /\ batch' = IF \A q \in Procs : pc[q] = "idle" THEN {p} ELSE batch \cup {p}
    /\ UNCHANGED <<node_plan, hourly_gpu_stats, daily_distinct_counts, hourly_distinct_counts,
                   runs_ended>>
    /\ UNCHANGED <<backend_vars, cache_vars, ingest_vars>>

\* cursor.execute(query); insert_hourly_gpu_stats(hourly_gpu_stats_data)
StepStats(p) ==
    /\ pc[p] = "stats"
    /\ LET res == insert_hourly_gpu_stats(hourly_gpu_stats_data(node_plan))
       IN  /\ hourly_gpu_stats' = res.table
           /\ pc' = [pc EXCEPT ![p] = IF res.raised THEN "idle" ELSE "daily"]
           /\ run_result' = [run_result EXCEPT ![p] = IF res.raised THEN "stats" ELSE @]
           /\ runs_ended' = IF res.raised THEN one_more(runs_ended) ELSE runs_ended
    /\ UNCHANGED <<node_plan, daily_distinct_counts, hourly_distinct_counts, tables_at_start, batch>>
    /\ UNCHANGED <<backend_vars, cache_vars, ingest_vars>>

\* cursor.execute(daily_query); insert_daily_distinct_counts(daily_distinct_data)
StepDaily(p) ==
    /\ pc[p] = "daily"
    /\ LET res == insert_daily_distinct_counts(daily_distinct_data(node_plan))
       IN  /\ daily_distinct_counts' = res.table
           /\ pc' = [pc EXCEPT ![p] = IF res.raised THEN "idle" ELSE "hourly"]
           /\ run_result' = [run_result EXCEPT ![p] = IF res.raised THEN "daily" ELSE @]
           /\ runs_ended' = IF res.raised THEN one_more(runs_ended) ELSE runs_ended
    /\ UNCHANGED <<node_plan, hourly_gpu_stats, hourly_distinct_counts, tables_at_start, batch>>
    /\ UNCHANGED <<backend_vars, cache_vars, ingest_vars>>

\* cursor.execute(distinct_hour_query); insert_hourly_distinct_counts(hour_distinct_data)
StepHourly(p) ==
    /\ pc[p] = "hourly"
    /\ LET res == insert_hourly_distinct_counts(hour_distinct_data(node_plan))
       IN  /\ hourly_distinct_counts' = res.table
           /\ pc' = [pc EXCEPT ![p] = "idle"]
           /\ run_result' = [run_result EXCEPT ![p] = IF res.raised THEN "hourly" ELSE "ok"]
           /\ runs_ended' = one_more(runs_ended)
    /\ UNCHANGED <<node_plan, hourly_gpu_stats, daily_distinct_counts, tables_at_start, batch>>
    /\ UNCHANGED <<backend_vars, cache_vars, ingest_vars>>

Run(p) == StartRun(p) \/ StepStats(p) \/ StepDaily(p) \/ StepHourly(p)

\* the script is run by one process at a time
Next ==
    \/ \E r \in PlanRows : AddPlan(r)
    \/ Run("A")

Spec == Init /\ [][Next]_vars

\* two runs of the script may overlap
NextOverlap ==
    \/ \E r \in PlanRows : AddPlan(r)
    \/ \E p \in Procs : Run(p)

SpecOverlap == Init /\ [][NextOverlap]_vars

\* rows whose gpu_class_id is the name of a group the queries add themselves
ReservedRows ==
    { [org_name |-> "team352", node_id |-> "A", start_at |-> 87300000, stop_at |-> 89100000,
       gpu_class_id |-> g, invoice_amount |-> 5, ram |-> 2000, cpu |-> 1000] :
        g \in {"all", "any_gpu", "no_gpu"} }

\* node_plan may also hold rows with such a gpu_class_id
NextReserved ==
    \/ \E r \in PlanRows \cup ReservedRows : AddPlan(r)
    \/ Run("A")

SpecReserved == Init /\ [][NextReserved]_vars

\* node_plan may also hold malformed rows
NextMalformed ==
    \/ \E r \in PlanRows \cup MalformedRows : AddPlan(r)
    \/ Run("A")

SpecMalformed == Init /\ [][NextMalformed]_vars

(***************************************************************************)
(* get_metrics_by_gpu: the top groups and Other over the fetched rows      *)
(* (src/backend/main.py). A Python string is a sequence of characters; a   *)
(* fetched row is <<gpu_group, ts, value>>, the value << >> for None and   *)
(* <<v>> for the number v.                                                 *)
(***************************************************************************)
\* the largest magnitude of a fetched value that varies
MaxValue == 2

\* sorted(...)[:5]
TopN == 5

None == << >>
Some(v) == <<v>>

\* value or 0
or_zero(value) == IF value = None THEN 0 ELSE value[1]

Unknown == <<"U", "n", "k", "n", "o", "w", "n">>
Other == <<"O", "t", "h", "e", "r">>

Digits == {"0", "1", "2", "4", "6", "8"}
Whitespace == {" ", "\t"}

\* the first position from i on that holds no character of the class C
RECURSIVE skip_class(_, _, _)
skip_class(name, i, C) ==
    IF i <= Len(name) /\ name[i] \in C THEN skip_class(name, i + 1, C) ELSE i

\* the position after \s* when \((\d+\s*[gG][bB])\) matches at position i, else 0
match_end(name, i) ==
    LET d == skip_class(name, i + 1, Digits)
        w == skip_class(name, d, Whitespace)
    IN  IF /\ name[i] = "("
           /\ d > i + 1
           /\ w + 2 <= Len(name)
           /\ name[w] \in {"g", "G"}
           /\ name[w + 1] \in {"b", "B"}
           /\ name[w + 2] = ")"
        THEN w
        ELSE 0

\* str.replace(" ", "")
RECURSIVE replace_space(_)
replace_space(s) ==
    IF s = << >> THEN << >>
    ELSE IF Head(s) = " " THEN replace_space(Tail(s))
    ELSE <<Head(s)>> \o replace_space(Tail(s))

\* the match as it stands, spaces kept
vram_of_name_unstripped(name) ==
    LET starts == { i \in 1..Len(name) : match_end(name, i) # 0 }
    IN  IF starts = {} THEN Unknown
        ELSE LET i == CHOOSE j \in starts : \A k \in starts : j <= k
             IN  SubSeq(name, i + 1, match_end(name, i) + 1)

\* re.search(r"\((\d+\s*[gG][bB])\)", name): group(1) of the leftmost match
\* with the spaces removed, or "Unknown"
vram_of_name(name) ==
    LET starts == { i \in 1..Len(name) : match_end(name, i) # 0 }
    IN  IF starts = {} THEN Unknown
        ELSE LET i == CHOOSE j \in starts : \A k \in starts : j <= k
             IN  replace_space(SubSeq(name, i + 1, match_end(name, i) + 1))

\* gpu_to_vram, over the classes of the directory
gpu_to_vram == [ gpu_id \in DOMAIN gpu_class_names |-> vram_of_name(gpu_class_names[gpu_id]) ]

\* gpu_to_vram.get(gpu_group, "Unknown")
vram(g) ==
    IF g \in DOMAIN gpu_to_vram THEN gpu_to_vram[g] ELSE Unknown

\* sorted(set): the elements of a set of numbers in ascending order
RECURSIVE sorted(_)
sorted(S) ==
    IF S = {} THEN << >>
    ELSE LET m == CHOOSE x \in S : \A y \in S : x <= y
         IN  <<m>> \o sorted(S \ {m})

\* the timestamps of the group of the first row only
labels_of_first_group == sorted({ rows[i][2] : i \in { i \in 1..Len(rows) : rows[i][1] = rows[1][1] } })

\* labels = sorted({r[1] for r in rows})
labels == sorted({ rows[i][2] : i \in 1..Len(rows) })

\* the keys of a dict filled row by row, in insertion order; K[i] is the key
\* of row i
RECURSIVE dict_keys(_)
dict_keys(K) ==
    IF K = << >> THEN << >>
    ELSE LET before == dict_keys(SubSeq(K, 1, Len(K) - 1))
         IN  IF \E j \in 1..Len(before) : before[j] = K[Len(K)]
             THEN before
             ELSE Append(before, K[Len(K)])

\* the sum of (value or 0) over the rows of index in I
sum_values(I) == IntSum(I, [ i \in 1..Len(rows) |-> or_zero(rows[i][3]) ])

\* group_sums[k] / vram_group_sums[k]
group_sum(K, k) == sum_values({ i \in 1..Len(rows) : K[i] = k })

\* the first TopN keys in insertion order, whatever their sums
top_names_first(K) ==
    LET keys == dict_keys(K)
    IN  { keys[j] : j \in { j \in 1..Len(keys) : j <= TopN } }

\* of two keys with equal sums the one inserted last comes first
top_names_last(K) ==
    LET keys == dict_keys(K)
        n == Len(keys)
        sums == [ j \in 1..n |-> group_sum(K, keys[j]) ] \o << >>
        ahead(h, j) == sums[h] > sums[j] \/ (sums[h] = sums[j] /\ h > j)
    IN  { keys[j] : j \in { j \in 1..n : Cardinality({ h \in 1..n : ahead(h, j) }) < TopN } }

\* sorted(sums.items(), key=lambda x: x[1], reverse=True)[:5]: the keys with
\* the TopN largest sums; the sort is stable, so of two keys with equal sums
\* the one inserted first comes first
top_names(K) ==
    LET keys == dict_keys(K)
        n == Len(keys)
        sums == [ j \in 1..n |-> group_sum(K, keys[j]) ] \o << >>
        ahead(h, j) == sums[h] > sums[j] \/ (sums[h] = sums[j] /\ h < j)
    IN  { keys[j] : j \in { j \in 1..n : Cardinality({ h \in 1..n : ahead(h, j) }) < TopN } }

\* a data array with an entry only for the timestamps at which k has a row
data_of_sparse(K, k) ==
    LET L == sorted({ rows[i][2] : i \in { i \in 1..Len(rows) : K[i] = k } })
    IN  [ x \in 1..Len(L) |->
            sum_values({ i \in 1..Len(rows) : K[i] = k /\ rows[i][2] = L[x] }) ]

\* the data array of the key k, aligned to labels: 0 where k has no row
data_of(K, k) ==
    LET L == labels
    IN  [ x \in 1..Len(L) |->
            sum_values({ i \in 1..Len(rows) : K[i] = k /\ rows[i][2] = L[x] }) ]

\* an Other series that holds nothing
other_data_empty(K, tops) == [ x \in 1..Len(labels) |-> 0 ]

\* other_entries / other_data: the rows of every key outside the top ones
other_data(K, tops) ==
    LET L == labels
    IN  [ x \in 1..Len(L) |->
            sum_values({ i \in 1..Len(rows) : K[i] \notin tops /\ rows[i][2] = L[x] }) ]

\* a test for an entry above 0
any_positive(data) == \E x \in 1..Len(data) : data[x] > 0

\* any(data)
any(data) == \E x \in 1..Len(data) : data[x] # 0

Reverse(s) == [ i \in 1..Len(s) |-> s[Len(s) + 1 - i] ]

\* "for k in top_names": the iteration order of a Python set is arbitrary;
\* two orders are kept, the insertion order of the keys and its reverse
iterate(K, tops, set_order) ==
    LET keys == IF set_order = "forward" THEN dict_keys(K) ELSE Reverse(dict_keys(K))
    IN  SelectSeq(keys, LAMBDA k : k \in tops)

\* output: one dataset per top key, then Other when any of its entries is not 0
output(K, label_of, set_order) ==
    LET tops == top_names(K)
        list == iterate(K, tops, set_order)
        datasets == [ j \in 1..Len(list) |->
                        [ label |-> label_of[list[j]], data |-> data_of(K, list[j]) ] ]
        other == other_data(K, tops) \o << >>
    IN  IF any(other)
        THEN Append(datasets, [ label |-> Other, data |-> other ])
        ELSE datasets

\* the key of every row when grouping by VRAM, and when grouping by GPU
\* (\o << >>: as a sequence)
vram_keys == [ i \in 1..Len(rows) |-> vram(rows[i][1]) ] \o << >>
gpu_keys == [ i \in 1..Len(rows) |-> rows[i][1] ] \o << >>

\* the class id as label, whatever the directory holds
gpu_label_raw == [ g \in { rows[i][1] : i \in 1..Len(rows) } |-> g ]

\* gpu_class_names.get(gpu_group, None), the gpu_group itself when None
gpu_label == [ g \in { rows[i][1] : i \in 1..Len(rows) } |->
                 IF g \in DOMAIN gpu_class_names THEN gpu_class_names[g] ELSE g ]
vram_label == [ v \in { vram_keys[i] : i \in 1..Len(rows) } |-> v ]

\* the part of get_metrics_by_gpu after cur.fetchall()
get_metrics_by_gpu(group_by, set_order) ==
    [ status |-> 200,
      labels |-> labels,
      datasets |-> IF group_by = "vram"
                   THEN output(vram_keys, vram_label, set_order)
                   ELSE output(gpu_keys, gpu_label, set_order) ]

(***************************************************************************)
(* The fetched rows and the directories the requests are made on           *)
(***************************************************************************)
GroupIds == << <<"g", "1">>, <<"g", "2">>, <<"g", "3">>, <<"g", "4">>,
               <<"g", "5">>, <<"g", "6">>, <<"g", "7">> >>

\* what one group has stored: a set of <<ts, value>>; the timestamp 3 is
\* that of small groups only
Profiles ==
    { {},
      { <<1, Some(0)>>, <<2, None>> },
      { <<3, Some(1)>> },
      { <<2, Some(MaxValue)>> },
      { <<3, Some(-1)>> } }

\* the groups 1 to 3 always have rows, the others have any of the profiles
Stores ==
    { [ n \in 1..7 |-> IF n = 1 THEN { <<1, Some(MaxValue + 1)>>, <<2, Some(MaxValue + 1)>> }
                       ELSE IF n = 2 THEN { <<1, Some(MaxValue)>> }
                       ELSE IF n = 3 THEN { <<2, Some(MaxValue)>> }
                       ELSE a[n] ] : a \in [4..7 -> Profiles] }

\* the cells <<n, ts, value>> of a store
cells(store) == UNION { { <<n, c[1], c[2]>> : c \in store[n] } : n \in 1..7 }

\* ORDER BY ts ASC leaves the order of the groups of one ts open (here
\* ascending or descending); ORDER BY gpu_group, day
comes_first(order_by, c, d) ==
    CASE order_by = "ts" -> c[2] < d[2] \/ (c[2] = d[2] /\ c[1] <= d[1])
      [] order_by = "ts_groups_desc" -> c[2] < d[2] \/ (c[2] = d[2] /\ c[1] >= d[1])
      [] order_by = "gpu_group" -> c[1] < d[1] \/ (c[1] = d[1] /\ c[2] <= d[2])

RECURSIVE fetchall(_, _)
fetchall(C, order_by) ==
    IF C = {} THEN << >>
    ELSE LET c == CHOOSE x \in C : \A y \in C : comes_first(order_by, x, y)
         IN  << <<GroupIds[c[1]], c[2], c[3]>> >> \o fetchall(C \ {c}, order_by)

FetchedRows ==
    { fetchall(cells(store), order_by) :
        store \in Stores, order_by \in {"ts", "ts_groups_desc", "gpu_group"} }

\* the table gpu_classes: nothing loaded, every tier different, odd names
Directories ==
    { << >>,
      [ g \in { GroupIds[n] : n \in 1..6 } |->
          CASE g = GroupIds[1] -> <<"A", " ", "(", "2", "4", " ", "G", "B", ")">>
            [] g = GroupIds[2] -> <<"B", " ", "(", "2", "4", "G", "B", ")">>
            [] g = GroupIds[3] -> <<"C", " ", "(", "8", " ", "g", "b", ")">>
            [] g = GroupIds[4] -> <<"D", " ", "(", "1", "2", "G", "B", ")">>
            [] g = GroupIds[5] -> <<"(", "1", "6", " ", " ", "G", "B", ")", " ", "E">>
            [] g = GroupIds[6] -> <<"F", " ", "(", "4", "8", "G", "B", ")">> ],
      [ g \in { GroupIds[n] : n \in 1..5 } |->
          CASE g = GroupIds[1] -> <<"T", "4">>
            [] g = GroupIds[2] -> <<"X", " ", "(", "G", "B", ")">>
            [] g = GroupIds[3] -> <<"(", "8", " ", "G", "B">>
            [] g = GroupIds[4] -> <<"(", "x", ")", " ", "(", "8", "\t", "G", "B", ")">>
            [] g = GroupIds[5] -> <<"B", " ", "(", "2", "4", "G", "B", ")">> ] }

MetricsInit ==
    /\ PlanInit
    /\ now = 0
    /\ placeholder_transactions = {}
    /\ executed = << >>
    /\ gpu_class_names \in Directories
    /\ rows \in FetchedRows
    /\ request = [endpoint |-> "none"]
    /\ response = [status |-> 0]
    /\ CacheIdle
    /\ IngestIdle

\* a request reaches get_metrics_by_gpu and the rows are fetched
GetMetricsByGpu(group_by, set_order) ==
    /\ request' = [endpoint |-> "get_metrics_by_gpu", group_by |-> group_by]
    /\ response' = get_metrics_by_gpu(group_by, set_order)
    /\ UNCHANGED <<plan_vars, cache_vars, ingest_vars, now, placeholder_transactions, executed, gpu_class_names, rows>>

NextMetrics ==
    \E group_by \in {"gpu", "vram"}, set_order \in {"forward", "backward"} :
        GetMetricsByGpu(group_by, set_order)

SpecMetrics == MetricsInit /\ [][NextMetrics]_vars

(***************************************************************************)
(* The query endpoints of the backend (without a cache: redis_client is    *)
(* None).  Times are seconds since the epoch.                              *)
(***************************************************************************)
\* the gpu_group values of the rows that are not of one class
All == <<"a", "l", "l">>
AnyGpu == <<"a", "n", "y", "_", "g", "p", "u">>
NoGpu == <<"n", "o", "_", "g", "p", "u">>

\* the metrics stored in hourly_gpu_stats, and in the distinct-count tables
stats_metrics ==
    { "total_time_seconds", "total_time_hours", "total_invoice_amount",
      "total_ram_hours", "total_cpu_hours", "total_transaction_count" }
distinct_metrics == { "unique_node_count", "unique_node_ram", "unique_node_cpu" }

\* timedelta(days=1), timedelta(weeks=1), timedelta(weeks=2), timedelta(days=31)
timedelta ==
    [ day |-> SecondsPerDay, week |-> 7 * SecondsPerDay,
      two_weeks |-> 14 * SecondsPerDay, month |-> 31 * SecondsPerDay ]

\* replace(hour=0, minute=0, second=0, microsecond=0); DATE(hour)
midnight(t) == (t \div SecondsPerDay) * SecondsPerDay

\* since as it is before line 160
get_query_parameters_untruncated(metric, period) ==
    IF metric \notin stats_metrics \cup distinct_metrics \/ period \notin DOMAIN timedelta
    THEN [ raised |-> TRUE ]
    ELSE [ raised |-> FALSE,
           since |-> now - timedelta[period],
           table |-> IF metric \in stats_metrics THEN "hourly_gpu_stats"
                     ELSE IF period = "day" THEN "hourly_distinct_counts"
                     ELSE "daily_distinct_counts",
           ts_col |-> IF period = "day" THEN "hour" ELSE "day" ]

\* get_query_parameters: table and ts_col are bound for the nine metrics
\* only and since for the four periods only, and reading an unbound name at
\* line 160 or 161 raises UnboundLocalError
get_query_parameters(metric, period) ==
    IF metric \notin stats_metrics \cup distinct_metrics \/ period \notin DOMAIN timedelta
    THEN [ raised |-> TRUE ]
    ELSE LET ts_col == IF period = "day" THEN "hour" ELSE "day"
             since == now - timedelta[period]
         IN  [ raised |-> FALSE,
               since |-> IF ts_col = "day" THEN midnight(since) ELSE since,
               table |-> IF metric \in stats_metrics THEN "hourly_gpu_stats"
                         ELSE IF period = "day" THEN "hourly_distinct_counts"
                         ELSE "daily_distinct_counts",
               ts_col |-> ts_col ]

\* FROM {table}
from(table) ==
    CASE table = "hourly_gpu_stats" -> BagToSet(hourly_gpu_stats)
      [] table = "hourly_distinct_counts" -> BagToSet(hourly_distinct_counts)
      [] table = "daily_distinct_counts" -> BagToSet(daily_distinct_counts)

\* the query takes the form with DATE(hour) and GROUP BY
by_date(query_info) == query_info.table = "hourly_gpu_stats" /\ query_info.ts_col = "day"

\* WHERE hour >= %s, or WHERE {ts_col} >= %s
where_since(query_info) ==
    IF by_date(query_info)
    THEN { r \in from(query_info.table) : r.hour >= query_info.since }
    ELSE { r \in from(query_info.table) : r[query_info.ts_col] >= query_info.since }

\* SUM({metric}) over the rows S
sum_metric(S, metric) == IntSum(S, [ r \in S |-> r[metric] ])

\* get_metrics: the series of one metric for one gpu_group, ORDER BY the
\* timestamp, as a sequence of points x, y
get_metrics(metric, period, gpu) ==
    LET query_info == get_query_parameters(metric, period)
        S == { r \in where_since(query_info) : r.gpu_group = gpu }
        points == IF by_date(query_info)
                  THEN { [ x |-> d, y |-> sum_metric({ r \in S : midnight(r.hour) = d }, metric) ] :
                           d \in { midnight(r.hour) : r \in S } }
                  ELSE { [ x |-> r[query_info.ts_col], y |-> r[metric] ] : r \in S }
        xs == sorted({ p.x : p \in points })
    IN  [ i \in 1..Len(xs) |-> CHOOSE p \in points : p.x = xs[i] ]

\* the index of a class in GroupIds
class_index(g) == CHOOSE n \in 1..Len(GroupIds) : GroupIds[n] = g

\* the rows get_metrics_by_gpu may fetch: the rows of the classes, in the
\* orders the ORDER BY allows
by_gpu_rows(query_info, metric) ==
    LET S == { r \in where_since(query_info) : r.gpu_group \notin {All, AnyGpu, NoGpu} }
        C == IF by_date(query_info)
             THEN { << class_index(k[1]), k[2],
                       Some(sum_metric({ r \in S : r.gpu_group = k[1] /\ midnight(r.hour) = k[2] },
                                       metric)) >> :
                      k \in { <<r.gpu_group, midnight(r.hour)>> : r \in S } }
             ELSE { << class_index(r.gpu_group), r[query_info.ts_col], Some(r[metric]) >> : r \in S }
    IN  IF by_date(query_info)
        THEN { fetchall(C, "gpu_group") }
        ELSE { fetchall(C, "ts"), fetchall(C, "ts_groups_desc") }

\* the metrics of /metrics/stats, and the periods /metrics/stats and
\* /metrics/trends allow
summary_metrics ==
    << "total_time_hours", "total_invoice_amount", "unique_node_count", "total_transaction_count" >>
allowed_periods == << "week", "two_weeks", "month" >>

Range(s) == { s[i] : i \in 1..Len(s) }

\* raise HTTPException(status_code=400, detail=f"Invalid period. Allowed: {allowed_periods}")
invalid_period == [ status |-> 400, detail |-> [ allowed |-> allowed_periods ] ]

\* an exception no handler catches: the framework answers 500
internal_server_error == [ status |-> 500 ]

\* get_stats_summary after the check of the period: one SUM per metric, 0
\* when the SUM is NULL
stats_results(period, gpu) ==
    [ metric \in Range(summary_metrics) |->
        sum_metric({ r \in where_since(get_query_parameters(metric, period)) : r.gpu_group = gpu },
                   metric) ]

\* the tables the queries of get_stats_summary are executed on
tables_of(metrics, period) ==
    [ i \in 1..Len(metrics) |-> get_query_parameters(metrics[i], period).table ]

\* the metrics of /metrics/trends for one gpu_group, and the calls of
\* get_metrics_by_gpu that follow them: group_by, metric
trend_metrics ==
    << "total_time_hours", "total_invoice_amount", "total_ram_hours",
       "total_cpu_hours", "total_transaction_count", "unique_node_count" >>
gpu_metrics == << "unique_node_count", "total_time_hours" >>
vram_metrics == << "unique_node_count", "total_time_hours" >>
by_gpu_calls ==
    [ i \in 1..Len(gpu_metrics) |-> <<"gpu", gpu_metrics[i]>> ]
        \o [ i \in 1..Len(vram_metrics) |-> <<"vram", vram_metrics[i]>> ]

\* sort_column = {"time": "ts", "glm": "invoiced_glm", "usd": "invoiced_dollar"}[sort_by]
sort_columns == [ time |-> "ts", glm |-> "invoiced_glm", usd |-> "invoiced_dollar" ]

\* ORDER BY {sort_column} {order}
RECURSIVE order_by(_, _, _)
order_by(S, sort_column, order) ==
    IF S = {} THEN << >>
    ELSE LET r == CHOOSE x \in S : \A y \in S :
                     IF order = "asc" THEN x[sort_column] <= y[sort_column]
                     ELSE x[sort_column] >= y[sort_column]
         IN  <<r>> \o order_by(S \ {r}, sort_column, order)

\* LIMIT %s
limit_to(s, limit) == SubSeq(s, 1, IF Len(s) < limit THEN Len(s) ELSE limit)

\* get_transactions: the COUNT(*) is executed first, then the sort column is
\* looked up (KeyError for any other sort_by), then the page is fetched and
\* the two cursors are found with further COUNT(*) queries. The cursor is a
\* text: the database reads it as a timestamp when it is compared with ts,
\* and rejects the query that compares it with one of the invoiced amounts
get_transactions(limit, cursor, direction, sort_by, sort_order) ==
    LET T == placeholder_transactions
        count == << "placeholder_transactions" >>
    IN  IF sort_by \notin DOMAIN sort_columns
        THEN [ response |-> internal_server_error, executed |-> count ]
        ELSE IF cursor # None /\ sort_columns[sort_by] # "ts"
        THEN [ response |-> internal_server_error, executed |-> count \o count ]
        ELSE LET sort_column == sort_columns[sort_by]
                 W == IF cursor = None THEN T
                      ELSE IF direction = "next"
                      THEN { r \in T : r[sort_column] < cursor[1] }
                      ELSE { r \in T : r[sort_column] > cursor[1] }
                 fetched == limit_to(order_by(W, sort_column, sort_order), limit)
                 page == IF direction = "prev" THEN Reverse(fetched) ELSE fetched
                 older == { r \in T : r.ts < page[Len(page)].ts } # {}
                 newer == { r \in T : r.ts > page[1].ts } # {}
                 both == direction = "next" \/ cursor # None
             IN  [ response |->
                     [ status |-> 200,
                       transactions |-> page,
                       next_cursor |-> IF page # << >> /\ both /\ older
                                       THEN Some(page[Len(page)].ts) ELSE None,
                       prev_cursor |-> IF page # << >> /\ newer
                                       THEN Some(page[1].ts) ELSE None,
                       total |-> Cardinality(T) ],
                   executed |-> count \o count
                                  \o (IF page = << >> THEN << >>
                                      ELSE IF both THEN count \o count ELSE count) ]

(***************************************************************************)
(* The stored rows and the clock the requests are made on                  *)
(***************************************************************************)
MaxBuckets == 2

\* 00:00 and 05:30 of day 40
Clock == { 40 * SecondsPerDay, 40 * SecondsPerDay + 5 * SecondsPerHour + 1800 }

\* the hours rows are stored for: 00:00 of the days 31, 14 and 7 days before
\* day 40, the hour before 00:00 of day 33, and 05:00 and 06:00 of day 39
BucketHours ==
    { 9 * SecondsPerDay, 26 * SecondsPerDay,
      33 * SecondsPerDay - SecondsPerHour, 33 * SecondsPerDay,
      39 * SecondsPerDay + 5 * SecondsPerHour, 39 * SecondsPerDay + 6 * SecondsPerHour }

\* the groups stored for every bucket, with the size of their values
GroupSizes == { <<All, 3>>, <<AnyGpu, 3>>, <<GroupIds[1], 2>>, <<GroupIds[2], 1>> }

\* the rollup tables with rows for the hours T; the values are whole numbers
StatsOf(T) ==
    { [ hour |-> h, gpu_group |-> g[1],
        total_time_seconds |-> SecondsPerHour * g[2], total_time_hours |-> g[2],
        total_invoice_amount |-> 2 * g[2], total_ram_hours |-> 3 * g[2],
        total_cpu_hours |-> 4 * g[2], total_transaction_count |-> 5 * g[2] ] :
        h \in T, g \in GroupSizes }
HourlyCountsOf(T) ==
    { [ hour |-> h, gpu_group |-> g[1], unique_node_count |-> g[2],
        unique_node_ram |-> 16 * g[2], unique_node_cpu |-> 8 * g[2] ] :
        h \in T, g \in GroupSizes }
DailyCountsOf(T) ==
    { [ day |-> d, gpu_group |-> g[1], unique_node_count |-> g[2],
        unique_node_ram |-> 16 * g[2], unique_node_cpu |-> 8 * g[2] ] :
        d \in { midnight(h) : h \in T }, g \in GroupSizes }

\* placeholder_transactions: three rows
TransactionTables ==
    { { [ ts |-> 1, tx |-> "a", invoiced_glm |-> 3, invoiced_dollar |-> 2 ],
        [ ts |-> 2, tx |-> "b", invoiced_glm |-> 1, invoiced_dollar |-> 3 ],
        [ ts |-> 3, tx |-> "c", invoiced_glm |-> 2, invoiced_dollar |-> 1 ] } }

QueryInit ==
    /\ node_plan = {}
    /\ \E T \in { B \in SUBSET BucketHours : Cardinality(B) <= MaxBuckets } :
          /\ hourly_gpu_stats = SetToBag(StatsOf(T))
          /\ daily_distinct_counts = SetToBag(DailyCountsOf(T))
          /\ hourly_distinct_counts = SetToBag(HourlyCountsOf(T))
    /\ pc = [p \in Procs |-> "idle"]
    /\ run_result = [p \in Procs |-> "none"]
    /\ runs_ended = 0
    /\ tables_at_start = tables
    /\ batch = {}
    /\ now \in Clock
    /\ placeholder_transactions \in TransactionTables
    /\ executed = << >>
    /\ gpu_class_names \in { d \in Directories : GroupIds[6] \in DOMAIN d }
    /\ rows = << >>
    /\ request = [endpoint |-> "none"]
    /\ response = [status |-> 0]
    /\ CacheIdle
    /\ IngestIdle

(***************************************************************************)
(* The requests                                                            *)
(***************************************************************************)
\* the request has calls of get_metrics_by_gpu left to return from; rows
\* holds what the first of them has fetched, and is empty in a request that
\* fetched nothing
Pending == "pending" \in DOMAIN request /\ request.pending # << >>

\* GET /metrics/stats
StatsSummaryFunc(period, gpu) ==
    /\ ~Pending
    /\ request' = [endpoint |-> "stats", period |-> period, gpu |-> gpu]
    /\ IF period \notin Range(allowed_periods)
       THEN /\ response' = invalid_period
            /\ executed' = << >>
       ELSE /\ response' = [status |-> 200, results |-> stats_results(period, gpu)]
            /\ executed' = tables_of(summary_metrics, period)
    /\ rows' = << >>
    /\ UNCHANGED <<plan_vars, ingest_vars, now, placeholder_transactions, gpu_class_names>>

\* get_stats_summary with no cache client: the wrapper returns func(*args, **kwargs)
GetStatsSummary(period, gpu) ==
    /\ StatsSummaryFunc(period, gpu)
    /\ UNCHANGED cache_vars

\* the first query of get_metrics_by_gpu for the calls left: the table it is
\* executed on, and the rows cur.fetchall() may return
next_table(calls, period) ==
    IF calls = << >> THEN << >>
    ELSE << get_query_parameters(calls[1][2], period).table >>
next_rows(calls, period) ==
    IF calls = << >> THEN { rows }
    ELSE by_gpu_rows(get_query_parameters(calls[1][2], period), calls[1][2])

\* GET /metrics/trends, up to cur.fetchall() of the first call of
\* get_metrics_by_gpu
AssembleMetricsFunc(period, gpu) ==
    /\ ~Pending
    /\ IF period \notin Range(allowed_periods)
       THEN /\ request' = [endpoint |-> "trends", period |-> period, gpu |-> gpu,
                           pending |-> << >>]
            /\ response' = invalid_period
            /\ executed' = << >>
            /\ rows' = << >>
       ELSE /\ request' = [endpoint |-> "trends", period |-> period, gpu |-> gpu,
                           pending |-> by_gpu_calls]
            /\ response' = [status |-> 0,
                            metrics |-> [ metric \in Range(trend_metrics) |->
                                            get_metrics(metric, period, gpu) ],
                            by_gpu |-> << >>]
            /\ executed' = tables_of(trend_metrics, period) \o next_table(by_gpu_calls, period)
            /\ rows' \in next_rows(by_gpu_calls, period)
    /\ UNCHANGED <<plan_vars, ingest_vars, now, placeholder_transactions, gpu_class_names>>

\* assemble_metrics with no cache client: the wrapper returns func(*args, **kwargs)
AssembleMetrics(period, gpu) ==
    /\ AssembleMetricsFunc(period, gpu)
    /\ UNCHANGED cache_vars

\* GET /metrics/gpu_stats: get_metrics_by_gpu(metric=metric, period=period),
\* up to cur.fetchall()
GpuStatsFunc(period, metric) ==
    /\ ~Pending
    /\ IF get_query_parameters(metric, period).raised
       THEN /\ request' = [endpoint |-> "gpu_stats", period |-> period, metric |-> metric,
                           pending |-> << >>]
            /\ response' = internal_server_error
            /\ executed' = << >>
            /\ rows' = << >>
       ELSE /\ request' = [endpoint |-> "gpu_stats", period |-> period, metric |-> metric,
                           pending |-> << <<"gpu", metric>> >>]
            /\ response' = [status |-> 0]
            /\ executed' = next_table(<< <<"gpu", metric>> >>, period)
            /\ rows' \in next_rows(<< <<"gpu", metric>> >>, period)
    /\ UNCHANGED <<plan_vars, ingest_vars, now, placeholder_transactions, gpu_class_names>>

\* gpu_stats with no cache client: the wrapper returns func(*args, **kwargs)
GpuStats(period, metric) ==
    /\ GpuStatsFunc(period, metric)
    /\ UNCHANGED cache_vars

\* get_metrics_by_gpu returns for the rows fetched; /metrics/gpu_stats
\* answers with the result, /metrics/trends keeps it and goes on to
\* cur.fetchall() of its next call, or answers after the last
ReturnByGpuFunc(set_order) ==
    /\ Pending
    /\ LET call == Head(request.pending)
           rest == Tail(request.pending)
           result == get_metrics_by_gpu(call[1], set_order)
       IN  /\ request' = [request EXCEPT !.pending = rest]
           /\ response' =
                 IF request.endpoint = "gpu_stats" THEN result
                 ELSE [response EXCEPT
                         !.status = IF rest = << >> THEN 200 ELSE 0,
                         !.by_gpu = @ @@ (call :> [labels |-> result.labels,
                                                   datasets |-> result.datasets])]
           /\ executed' = executed \o next_table(rest, request.period)
           /\ rows' \in next_rows(rest, request.period)
    /\ UNCHANGED <<plan_vars, ingest_vars, now, placeholder_transactions, gpu_class_names>>

\* get_metrics_by_gpu with no cache client: the wrapper returns func(*args, **kwargs)
ReturnByGpu(set_order) ==
    /\ ReturnByGpuFunc(set_order)
    /\ UNCHANGED cache_vars

\* GET /metrics/transactions
TransactionsFunc(limit, cursor, direction, sort_by, sort_order) ==
    /\ ~Pending
    /\ request' = [endpoint |-> "transactions", limit |-> limit, cursor |-> cursor,
                   direction |-> direction, sort_by |-> sort_by, sort_order |-> sort_order]
    /\ LET done == get_transactions(limit, cursor, direction, sort_by, sort_order)
       IN  /\ response' = done.response
           /\ executed' = done.executed
    /\ rows' = << >>
    /\ UNCHANGED <<plan_vars, ingest_vars, now, placeholder_transactions, gpu_class_names>>

\* get_transactions with no cache client: the wrapper returns func(*args, **kwargs)
GetTransactions(limit, cursor, direction, sort_by, sort_order) ==
    /\ TransactionsFunc(limit, cursor, direction, sort_by, sort_order)
    /\ UNCHANGED cache_vars

\* the arguments of the requests: the allowed ones and others
PeriodArgs == { "day", "week", "two_weeks", "month", "year" }
GpuArgs == { All, GroupIds[1] }
MetricArgs == { "total_time_hours", "unique_node_count", "total_cost" }
SortArgs == { "time", "glm", "usd", "tx" }
CursorArgs == { None, Some(2) }

\* a cursor is a timestamp: it is sent with the sort by time
NextQuery ==
    \/ \E period \in PeriodArgs, gpu \in GpuArgs : GetStatsSummary(period, gpu)
    \/ \E period \in PeriodArgs, gpu \in GpuArgs : AssembleMetrics(period, gpu)
    \/ \E period \in PeriodArgs, metric \in MetricArgs : GpuStats(period, metric)
    \/ \E set_order \in {"forward", "backward"} : ReturnByGpu(set_order)
    \/ \E limit \in 1..2, cursor \in CursorArgs, direction \in {"next", "prev"},
          sort_by \in SortArgs, sort_order \in {"asc", "desc"} :
          /\ cursor # None => sort_by \in {"time", "tx"}
          /\ GetTransactions(limit, cursor, direction, sort_by, sort_order)

SpecQuery == QueryInit /\ [][NextQuery]_vars

(***************************************************************************)
(* A client that pages through /metrics/transactions                       *)
(***************************************************************************)
MaxLimit == 2

\* the rows placeholder_transactions is made of: b and c have one timestamp,
\* a and c, and b and d, one invoiced_glm
TransactionPool ==
    { [ ts |-> 1, tx |-> "a", invoiced_glm |-> 1, invoiced_dollar |-> 4 ],
      [ ts |-> 2, tx |-> "b", invoiced_glm |-> 0, invoiced_dollar |-> 3 ],
      [ ts |-> 2, tx |-> "c", invoiced_glm |-> 1, invoiced_dollar |-> 2 ],
      [ ts |-> 3, tx |-> "d", invoiced_glm |-> 0, invoiced_dollar |-> 1 ],
      [ ts |-> 4, tx |-> "e", invoiced_glm |-> 2, invoiced_dollar |-> 0 ] }

PagesInit ==
    /\ PlanInit
    /\ now = 0
    /\ placeholder_transactions \in SUBSET TransactionPool
    /\ executed = << >>
    /\ gpu_class_names = << >>
    /\ rows = << >>
    /\ request = [endpoint |-> "none"]
    /\ response = [status |-> 0]
    /\ CacheIdle
    /\ IngestIdle

\* the last request was answered with a page of transactions
Paged == request.endpoint = "transactions" /\ response.status = 200

\* direction=next, cursor=null
FirstPage(limit, sort_by, sort_order) ==
    GetTransactions(limit, None, "next", sort_by, sort_order)

\* the client sends the next_cursor of the page it has, with the same limit,
\* sort_by and sort_order
NextPage ==
    /\ Paged
    /\ response.next_cursor # None
    /\ GetTransactions(request.limit, response.next_cursor, "next",
                       request.sort_by, request.sort_order)

\* the client sends the prev_cursor of the page it has
PrevPage ==
    /\ Paged
    /\ response.prev_cursor # None
    /\ GetTransactions(request.limit, response.prev_cursor, "prev",
                       request.sort_by, request.sort_order)

NextPages ==
    \/ \E limit \in 1..MaxLimit, sort_by \in DOMAIN sort_columns, sort_order \in {"asc", "desc"} :
          FirstPage(limit, sort_by, sort_order)
    \/ NextPage
    \/ PrevPage

SpecPages == PagesInit /\ [][NextPages]_vars

(***************************************************************************)
(* The cache in front of the query endpoints (cache_response)              *)
(***************************************************************************)
MaxCached == 2
MaxTicks == 1
TickSeconds == 3600

\* CACHE_TTL, in seconds
CACHE_TTL ==
    [ stats |-> 3600, trends |-> 3600, gpu_stats |-> 3600, transactions |-> 60,
      city_counts |-> 86400 ]

\* the errors of the cache client
redis_errors == { "ConnectionError" }

\* no handler around the calls of the cache client
except_nothing(e) == FALSE

\* except Exception as e: print(f"Redis get error: {e}")
except_redis_error(e) == e \notin { "SystemExit", "KeyboardInterrupt", "GeneratorExit" }

\* the text of a timestamp: isoformat() of a datetime has a T between the
\* date and the time, str() a space; a date has the same text with both
isoformat(t, is_datetime) == [ text_of |-> t, sep |-> IF is_datetime THEN "T" ELSE "-" ]
str(t, is_datetime) == [ text_of |-> t, sep |-> IF is_datetime THEN " " ELSE "-" ]

\* the labels of the result are datetime objects: the rows of get_metrics_by_gpu
\* come with the hour column (DATE(hour) and the day column are dates)
datetime_labels(req) ==
    /\ ~get_query_parameters(req.metric, req.period).raised
    /\ get_query_parameters(req.metric, req.period).ts_col = "hour"

\* json.loads(json.dumps(result, default=str)): numbers, texts, lists and
\* dicts with text keys come back as they were, a datetime or a date as its
\* str() (written out for the labels of /metrics/gpu_stats; the dates of
\* /metrics/trends, which have one text, are left as they are)
json_loads_dumps(result, req) ==
    IF req.endpoint = "gpu_stats"
    THEN [ result EXCEPT !.labels = [ i \in 1..Len(result.labels) |->
                                        str(result.labels[i], datetime_labels(req)) ] ]
    ELSE result

\* what the framework sends for the value the wrapper returned: a datetime
\* or a date as its isoformat(), a text as it is
jsonable_encoder(result, req, from_cache) ==
    IF req.endpoint = "gpu_stats" /\ ~from_cache /\ result.status = 200
    THEN [ result EXCEPT !.labels = [ i \in 1..Len(result.labels) |->
                                        isoformat(result.labels[i], datetime_labels(req)) ] ]
    ELSE result

\* full_cache_key: the key of the endpoint and the md5 of the sorted query
\* parameters (no two requests of the model have the same md5)
full_cache_key(req) == [ f \in DOMAIN req \ {"pending"} |-> req[f] ]

\* the entries the cache has not expired
live(entries) == { e \in entries : e.expires > now }

\* redis_client.get(full_cache_key) and `if cached:`
redis_get(key, get_error) ==
    IF get_error # "none" THEN [ outcome |-> "raised" ]
    ELSE IF \E e \in live(cache) : e.key = key
    THEN [ outcome |-> "hit", value |-> (CHOOSE e \in live(cache) : e.key = key).value ]
    ELSE [ outcome |-> "miss" ]

\* the end of the wrapper once func has run: nothing when func has not
\* returned yet or has raised; redis_client.setex(full_cache_key, cache_ttl,
\* json.dumps(result, default=str)), which raises set_error, or raises for
\* want of memory when MaxCached other keys are stored
return_result(get_outcome, set_error) ==
    LET key == full_cache_key(request')
        others == { e \in live(cache) : e.key # key }
    IN  IF Pending' \/ response'.status # 200
        THEN /\ wrapper' = [ get |-> get_outcome, func |-> 1, set |-> "none" ]
             /\ UNCHANGED cache
        ELSE IF set_error # "none" \/ Cardinality(others) >= MaxCached
        THEN /\ wrapper' = [ get |-> get_outcome, func |-> 1, set |-> "raised" ]
             /\ UNCHANGED cache
        ELSE /\ wrapper' = [ get |-> get_outcome, func |-> 1, set |-> "stored" ]
             /\ cache' = others \cup
                   { [ key |-> key,
                       value |-> json_loads_dumps(response', request'),
                       expires |-> now + CACHE_TTL[request'.endpoint] ] }

\* wrapper(*args, **kwargs) of cache_response, up to the return of func or to
\* its first cur.fetchall() in get_metrics_by_gpu (/metrics/trends, wrapped
\* the same way, and /metrics/city_counts are not among the requests here)
cache_response(req, get_error, set_error, Func) ==
    IF redis_client = "none"
    THEN /\ Func
         /\ wrapper' = [ get |-> "absent", func |-> 1, set |-> "none" ]
         /\ UNCHANGED <<redis_client, cache>>
    ELSE LET cached == redis_get(full_cache_key(req), get_error)
         IN  IF cached.outcome = "raised" /\ ~except_redis_error(get_error)
             THEN /\ request' = req
                  /\ response' = internal_server_error
                  /\ executed' = << >>
                  /\ rows' = << >>
                  /\ wrapper' = [ get |-> "raised", func |-> 0, set |-> "none" ]
                  /\ UNCHANGED <<redis_client, cache>>
                  /\ UNCHANGED <<plan_vars, ingest_vars, now, placeholder_transactions, gpu_class_names>>
             ELSE IF cached.outcome = "hit"
             THEN /\ request' = req
                  /\ response' = cached.value
                  /\ executed' = << >>
                  /\ rows' = << >>
                  /\ wrapper' = [ get |-> "hit", func |-> 0, set |-> "none" ]
                  /\ UNCHANGED <<redis_client, cache>>
                  /\ UNCHANGED <<plan_vars, ingest_vars, now, placeholder_transactions, gpu_class_names>>
             ELSE /\ Func
                  /\ return_result(cached.outcome, set_error)
                  /\ UNCHANGED redis_client

\* GET /metrics/stats
CachedStatsSummary(period, gpu, get_error, set_error) ==
    /\ ~Pending
    /\ cache_response([endpoint |-> "stats", period |-> period, gpu |-> gpu],
                      get_error, set_error, StatsSummaryFunc(period, gpu))

\* GET /metrics/gpu_stats
CachedGpuStats(period, metric, get_error, set_error) ==
    /\ ~Pending
    /\ cache_response([endpoint |-> "gpu_stats", period |-> period, metric |-> metric],
                      get_error, set_error, GpuStatsFunc(period, metric))

\* GET /metrics/transactions
CachedTransactions(limit, cursor, direction, sort_by, sort_order, get_error, set_error) ==
    /\ ~Pending
    /\ cache_response([endpoint |-> "transactions", limit |-> limit, cursor |-> cursor,
                       direction |-> direction, sort_by |-> sort_by, sort_order |-> sort_order],
                      get_error, set_error,
                      TransactionsFunc(limit, cursor, direction, sort_by, sort_order))

\* get_metrics_by_gpu returns inside func; after its last return func
\* returns to the wrapper
CachedReturnByGpu(set_order, set_error) ==
    /\ ReturnByGpuFunc(set_order)
    /\ IF redis_client = "none"
       THEN UNCHANGED cache_vars
       ELSE /\ return_result(wrapper.get, set_error)
            /\ UNCHANGED redis_client

\* the clock goes on between two requests
Tick ==
    /\ ~Pending
    /\ \E c \in Clock : now >= c /\ now + TickSeconds <= c + MaxTicks * TickSeconds
    /\ now' = now + TickSeconds
    /\ UNCHANGED <<plan_vars, cache_vars, ingest_vars, placeholder_transactions, executed,
                   gpu_class_names, rows, request, response>>

\* the hours the aggregation writes rows for while requests are served
CacheHours == { 33 * SecondsPerDay, 39 * SecondsPerDay + 6 * SecondsPerHour }

\* a run of the aggregation has inserted the rows of hour h
AggregationWrites(h) ==
    /\ ~Pending
    /\ h \notin { r.hour : r \in BagToSet(hourly_gpu_stats) }
    /\ Cardinality({ r.hour : r \in BagToSet(hourly_gpu_stats) }) < MaxBuckets
    /\ hourly_gpu_stats' = hourly_gpu_stats (+) SetToBag(StatsOf({h}))
    /\ hourly_distinct_counts' = hourly_distinct_counts (+) SetToBag(HourlyCountsOf({h}))
    /\ daily_distinct_counts' =
          SetToBag(DailyCountsOf({ r.hour : r \in BagToSet(hourly_gpu_stats) } \cup {h}))
    /\ UNCHANGED <<node_plan, pc, run_result, runs_ended, tables_at_start, batch>>
    /\ UNCHANGED <<backend_vars, cache_vars, ingest_vars>>

\* a cache client that answered the ping at startup, or none; the rows of
\* one hour are stored when the first request comes
CacheInit ==
    /\ node_plan = {}
    /\ \E T \in { { 33 * SecondsPerDay } } :
          /\ hourly_gpu_stats = SetToBag(StatsOf(T))
          /\ daily_distinct_counts = SetToBag(DailyCountsOf(T))
          /\ hourly_distinct_counts = SetToBag(HourlyCountsOf(T))
    /\ pc = [p \in Procs |-> "idle"]
    /\ run_result = [p \in Procs |-> "none"]
    /\ runs_ended = 0
    /\ tables_at_start = tables
    /\ batch = {}
    /\ now = 40 * SecondsPerDay + 5 * SecondsPerHour + 1800
    /\ placeholder_transactions \in TransactionTables
    /\ executed = << >>
    /\ gpu_class_names = CHOOSE d \in Directories : GroupIds[6] \in DOMAIN d
    /\ rows = << >>
    /\ request = [endpoint |-> "none"]
    /\ response = [status |-> 0]
    /\ redis_client \in { "none", "connected" }
    /\ cache = {}
    /\ wrapper = [get |-> "none", func |-> 0, set |-> "none"]
    /\ IngestIdle

CacheErrors == { "none" } \cup redis_errors

NextCache ==
    \/ \E period \in { "week", "day" }, get_error, set_error \in CacheErrors :
          CachedStatsSummary(period, All, get_error, set_error)
    \/ \E period \in { "week", "day" }, metric \in { "total_time_hours", "total_cost" },
          get_error, set_error \in CacheErrors :
          /\ metric = "total_cost" => period = "week"
          /\ CachedGpuStats(period, metric, get_error, set_error)
    \/ \E sort_by \in { "time", "tx" }, get_error, set_error \in CacheErrors :
          CachedTransactions(2, None, "next", sort_by, "desc", get_error, set_error)
    \/ \E set_order \in {"forward", "backward"}, set_error \in CacheErrors :
          CachedReturnByGpu(set_order, set_error)
    \/ Tick
    \/ \E h \in CacheHours : AggregationWrites(h)

SpecCache == CacheInit /\ [][NextCache]_vars

(***************************************************************************)
(* The ingest loop (src/data-collection/get_data.py)                       *)
(***************************************************************************)
MaxSnapshots == 6

\* time.sleep(2 * 60 * 60)
two_hours == 2 * 60 * 60

\* the steps of main(): psycopg2.connect, the queries on the document store,
\* the requests to the GPU class directory, the counting, and the three
\* transactions on the snapshot tables
Steps == << "connect", "nodes", "gpu_classes", "process", "snapshot", "gpu_snapshot", "geo_snapshot" >>

\* the exceptions a step may raise
raises(step) ==
    CASE step = "connect" -> { "OperationalError", "TypeError" }
      [] step = "nodes" -> { "PyMongoError" }
      [] step = "gpu_classes" -> { "RequestException", "KeyError" }
      [] step = "process" -> { "KeyError", "TypeError" }
      [] step \in { "snapshot", "gpu_snapshot", "geo_snapshot" } -> { "OperationalError", "DataError" }

\* a handler for the errors of the store only
except_psycopg2_Error(e) == e \in { "OperationalError", "DataError" }

\* except Exception as e: every exception but those that derive from
\* BaseException alone
except_Exception(e) == e \notin { "SystemExit", "KeyboardInterrupt", "GeneratorExit" }

\* a sleep that is part of the try block: none after an exception
sleep_in_try(log) == IF log = "error" THEN 0 ELSE two_hours

\* the seconds slept at the end of an iteration, whatever the run printed
sleep_seconds(log) == two_hours

\* while True: try: print("Running ingest..."); main() begins
Begin ==
    /\ loop_pc = "while"
    /\ loop_pc' = Steps[1]
    /\ raised_at' = "none"
    /\ UNCHANGED <<slept, logged, snapshots>>
    /\ UNCHANGED <<plan_vars, backend_vars, cache_vars>>

\* a step of main() returns; after the last, print("Done. Sleeping 2 hours...")
StepReturns(i) ==
    /\ loop_pc = Steps[i]
    /\ snapshots' = IF Steps[i] \in { "snapshot", "gpu_snapshot", "geo_snapshot" }
                       /\ snapshots < MaxSnapshots
                    THEN snapshots + 1 ELSE snapshots
    /\ IF i < Len(Steps)
       THEN /\ loop_pc' = Steps[i + 1]
            /\ UNCHANGED <<slept, logged>>
       ELSE /\ loop_pc' = "sleep"
            /\ logged' = "done"
            /\ slept' = 0
    /\ UNCHANGED raised_at
    /\ UNCHANGED <<plan_vars, backend_vars, cache_vars>>

\* a step of main() raises e: print("ERROR:", e) when the handler takes it,
\* the end of the process when not
StepRaises(i, e) ==
    /\ loop_pc = Steps[i]
    /\ e \in raises(Steps[i])
    /\ raised_at' = Steps[i]
    /\ IF except_Exception(e)
       THEN /\ loop_pc' = "sleep"
            /\ logged' = "error"
            /\ slept' = 0
       ELSE /\ loop_pc' = "terminated"
            /\ UNCHANGED <<slept, logged>>
    /\ UNCHANGED snapshots
    /\ UNCHANGED <<plan_vars, backend_vars, cache_vars>>

\* time.sleep(2 * 60 * 60), and back to while True
Sleep ==
    /\ loop_pc = "sleep"
    /\ slept' = slept + sleep_seconds(logged)
    /\ loop_pc' = "while"
    /\ UNCHANGED <<logged, raised_at, snapshots>>
    /\ UNCHANGED <<plan_vars, backend_vars, cache_vars>>

NextIngest ==
    \/ Begin
    \/ \E i \in 1..Len(Steps) : StepReturns(i)
    \/ \E i \in 1..Len(Steps), e \in UNION { raises(Steps[j]) : j \in 1..Len(Steps) } :
          StepRaises(i, e)
    \/ Sleep

\* every step of main() ends, and so does the sleep
SpecIngest == Init /\ [][NextIngest]_vars /\ WF_vars(NextIngest)

(***************************************************************************)
(* Properties of the stored rows                                           *)
(***************************************************************************)
AllIdle == \A p \in Procs : pc[p] = "idle"

\* the table holds each (time_bucket, gpu_group) key at most once
OneRowPerKey(table) ==
    \A t, u \in BagToSet(table) : table[t] = 1 /\ (row_key(t) = row_key(u) => t = u)

\* the table holds every row of data, and no other row with one of its keys
Stored(table, data) ==
    \A d \in BagToSet(data) :
        /\ d \in BagToSet(table)
        /\ \A t \in BagToSet(table) : row_key(t) = row_key(d) => t = d

C2_LastWriterWins ==
    [][/\ \A p \in Procs :
            /\ (pc[p] = "stats" /\ pc'[p] # "stats")
                    => Stored(hourly_gpu_stats', hourly_gpu_stats_data(node_plan))
            /\ (pc[p] = "daily" /\ pc'[p] # "daily")
                    => Stored(daily_distinct_counts', daily_distinct_data(node_plan))
            /\ (pc[p] = "hourly" /\ pc'[p] # "hourly")
                    => Stored(hourly_distinct_counts', hour_distinct_data(node_plan))
       /\ OneRowPerKey(hourly_gpu_stats')
       /\ OneRowPerKey(daily_distinct_counts')
       /\ OneRowPerKey(hourly_distinct_counts')]_vars

\* C3: when two overlapping runs over the same node_plan have both ended,
\* the rollup tables are those a single run leaves, whatever the order of
\* the per-table writes was, and neither run was ended by an exception that
\* a run alone would not have met
C3_OverlapAsSingleRun ==
    (AllIdle /\ batch = Procs) =>
        LET one == single_run(tables_at_start, node_plan)
        IN  /\ tables = one.tables
            /\ \A p \in Procs : run_result[p] # "ok" => one.raised

(***************************************************************************)
(* Properties of the aggregated rows                                       *)
(***************************************************************************)
\* the group names that are not GPU classes
GroupNames == {"all", "any_gpu", "no_gpu"}

\* the rows of a bag of rollup rows
Rows(bag) == BagToSet(bag)

\* the time bucket of a rollup row
bucket_of(row) == row_key(row)[1]

\* the rows of bucket b under group g, and under the GPU classes
GroupRows(S, b, g) == { t \in S : bucket_of(t) = b /\ t.gpu_group = g }
ClassRows(S, b) == { t \in S : bucket_of(t) = b /\ t.gpu_group \notin GroupNames }

\* the sum of a column over rows (no row: zero)
SecondsOf(S) == RatSum(S, [t \in S |-> t.total_time_seconds])
TransactionsOf(S) == IntSum(S, [t \in S |-> t.total_transaction_count])
NodeCountOf(S) == IntSum(S, [t \in S |-> t.unique_node_count])
NodeRamOf(S) == IntSum(S, [t \in S |-> t.unique_node_ram])
NodeCpuOf(S) == IntSum(S, [t \in S |-> t.unique_node_cpu])

\* C4: in every hour of hourly_gpu_stats, total_time_seconds and
\* total_transaction_count of the all row are those of the any_gpu row plus
\* those of the no_gpu row (a missing row counting as zero), and those of
\* the any_gpu row are the sums over the rows of the GPU classes
C4_StatsConservation ==
    LET S == Rows(hourly_gpu_stats)
    IN  \A b \in { bucket_of(t) : t \in S } :
            /\ SecondsOf(GroupRows(S, b, "all"))
                 = RatAdd(SecondsOf(GroupRows(S, b, "any_gpu")), SecondsOf(GroupRows(S, b, "no_gpu")))
            /\ TransactionsOf(GroupRows(S, b, "all"))
                 = TransactionsOf(GroupRows(S, b, "any_gpu")) + TransactionsOf(GroupRows(S, b, "no_gpu"))
            /\ SecondsOf(GroupRows(S, b, "any_gpu")) = SecondsOf(ClassRows(S, b))
            /\ TransactionsOf(GroupRows(S, b, "any_gpu")) = TransactionsOf(ClassRows(S, b))

\* hourly_gpu_stats holds an hour with an all, an any_gpu, a no_gpu and a
\* class row
C4_Witness ==
    LET S == Rows(hourly_gpu_stats)
    IN  \E b \in { bucket_of(t) : t \in S } :
            /\ GroupRows(S, b, "all") # {}
            /\ GroupRows(S, b, "any_gpu") # {}
            /\ GroupRows(S, b, "no_gpu") # {}
            /\ ClassRows(S, b) # {}

\* the rows a step has added to a rollup table
NewRows(old, new) == Rows(new) \ Rows(old)

\* gpu_class_id is null or the empty string
NoGpuClass(r) == r.gpu_class_id = NULL \/ r.gpu_class_id = ""

\* the largest of a non-empty set of numbers
Largest(V) == CHOOSE m \in V : \A v \in V : v <= m

\* the equalities of the distinct-count family in bucket b of the rows S
RamCpuAdditive(S, b) ==
    /\ NodeRamOf(GroupRows(S, b, "all"))
         = NodeRamOf(GroupRows(S, b, "any_gpu")) + NodeRamOf(GroupRows(S, b, "no_gpu"))
    /\ NodeCpuOf(GroupRows(S, b, "all"))
         = NodeCpuOf(GroupRows(S, b, "any_gpu")) + NodeCpuOf(GroupRows(S, b, "no_gpu"))
    /\ NodeRamOf(GroupRows(S, b, "any_gpu")) = NodeRamOf(ClassRows(S, b))
    /\ NodeCpuOf(GroupRows(S, b, "any_gpu")) = NodeCpuOf(ClassRows(S, b))

CountAdditive(S, b) ==
    /\ NodeCountOf(GroupRows(S, b, "all"))
         = NodeCountOf(GroupRows(S, b, "any_gpu")) + NodeCountOf(GroupRows(S, b, "no_gpu"))
    /\ NodeCountOf(GroupRows(S, b, "any_gpu")) = NodeCountOf(ClassRows(S, b))

CountSubAdditive(S, b) ==
    /\ NodeCountOf(GroupRows(S, b, "all"))
         <= NodeCountOf(GroupRows(S, b, "any_gpu")) + NodeCountOf(GroupRows(S, b, "no_gpu"))
    /\ NodeCountOf(GroupRows(S, b, "any_gpu")) <= NodeCountOf(ClassRows(S, b))

\* no node has rows of plans under two gpu groups
OneGroupPerNode(plans) ==
    \A r, q \in plans : r.node_id = q.node_id => gpu_group(r) = gpu_group(q)

\* C5 as stated: in every day and hour bucket a run writes to the
\* distinct-count tables, unique_node_count, unique_node_ram and
\* unique_node_cpu of the all row are those of any_gpu plus those of no_gpu,
\* and those of any_gpu are the sums over the class rows
C5_DistinctAdditive ==
    [][LET D == NewRows(daily_distinct_counts, daily_distinct_counts')
           H == NewRows(hourly_distinct_counts, hourly_distinct_counts')
       IN  /\ \A b \in { bucket_of(t) : t \in D } : RamCpuAdditive(D, b) /\ CountAdditive(D, b)
           /\ \A b \in { bucket_of(t) : t \in H } : RamCpuAdditive(H, b) /\ CountAdditive(H, b)]_vars

\* C5 amended: in every bucket a run writes, unique_node_ram and
\* unique_node_cpu satisfy the two equalities for every input;
\* unique_node_count satisfies them when no node has records under two gpu
\* groups in the bucket, and in general the all count is at most any_gpu plus
\* no_gpu and the any_gpu count at most the sum over the class rows
C5_DistinctAdditiveAmended ==
    [][LET D == NewRows(daily_distinct_counts, daily_distinct_counts')
           H == NewRows(hourly_distinct_counts, hourly_distinct_counts')
       IN  /\ \A b \in { bucket_of(t) : t \in D } :
                /\ RamCpuAdditive(D, b)
                /\ CountSubAdditive(D, b)
                /\ OneGroupPerNode({ r \in base(node_plan) : day(r) = b }) => CountAdditive(D, b)
           /\ \A b \in { bucket_of(t) : t \in H } :
                /\ RamCpuAdditive(H, b)
                /\ CountSubAdditive(H, b)
                /\ OneGroupPerNode({ r \in base(node_plan) : hour(r) = b }) => CountAdditive(H, b)]_vars

\* both distinct-count tables hold the rows of node_plan, in which one node
\* has a GPU and a non-GPU record in one hour: the node is counted once in
\* all, in any_gpu and in no_gpu
C5_Witness ==
    /\ node_plan # {}
    /\ daily_distinct_counts = daily_distinct_data(node_plan)
    /\ hourly_distinct_counts = hour_distinct_data(node_plan)
    /\ \E b \in { bucket_of(t) : t \in Rows(hourly_distinct_counts) } :
          LET S == Rows(hourly_distinct_counts)
          IN  /\ NodeCountOf(GroupRows(S, b, "all")) = 1
              /\ NodeCountOf(GroupRows(S, b, "any_gpu")) = 1
              /\ NodeCountOf(GroupRows(S, b, "no_gpu")) = 1

\* the row t of a GPU class counts the nodes of the records recs once each
\* and adds, per node, the largest ram and the largest cpu of its records
CountsNodesOnceWithMax(t, recs) ==
    LET nodes == { r.node_id : r \in recs }
        of(n) == { r \in recs : r.node_id = n }
    IN  /\ t.unique_node_count = Cardinality(nodes)
        /\ t.unique_node_ram = IntSum(nodes, [n \in nodes |-> Largest({ r.ram : r \in of(n) })])
        /\ t.unique_node_cpu = IntSum(nodes, [n \in nodes |-> Largest({ r.cpu : r \in of(n) })])

\* C6: every row of a GPU class that a run writes to the distinct-count
\* tables counts each node with records of that class in the bucket once,
\* and its unique_node_ram (unique_node_cpu) is the sum over those nodes of
\* the largest ram (cpu) among the node's records of the class in the bucket
C6_ClassRowMaxNotSum ==
    [][/\ \A t \in NewRows(daily_distinct_counts, daily_distinct_counts') :
            t.gpu_group \notin GroupNames =>
                CountsNodesOnceWithMax(t, { r \in base(node_plan) :
                    day(r) = t.day /\ r.gpu_class_id = t.gpu_group })
       /\ \A t \in NewRows(hourly_distinct_counts, hourly_distinct_counts') :
            t.gpu_group \notin GroupNames =>
                CountsNodesOnceWithMax(t, { r \in base(node_plan) :
                    hour(r) = t.hour /\ r.gpu_class_id = t.gpu_group })]_vars

\* hourly_distinct_counts holds a class row with one node and ram 2000, cpu
\* 2000, written from two records of that node and class in the hour, one
\* with ram 1000 and cpu 2000, one with ram 2000 and cpu 1000
C6_Witness ==
    \E t \in Rows(hourly_distinct_counts) :
        /\ t.gpu_group \notin GroupNames
        /\ t.unique_node_count = 1 /\ t.unique_node_ram = 2000 /\ t.unique_node_cpu = 2000
        /\ \E r, q \in node_plan :
            /\ r.node_id = q.node_id
            /\ r.gpu_class_id = t.gpu_group /\ q.gpu_class_id = t.gpu_group
            /\ hour(r) = t.hour /\ hour(q) = t.hour
            /\ r.ram = 1000 /\ q.ram = 2000

\* C7: every all row and every any_gpu row that a run writes to the
\* distinct-count tables counts each node of the bucket (for any_gpu: each
\* node with a GPU record) once, and adds for it once the largest ram and
\* the largest cpu among all its records (for any_gpu: its GPU records) in
\* the bucket, under however many gpu groups the node appears
C7_NodeOnceAcrossGroups ==
    [][/\ \A t \in NewRows(daily_distinct_counts, daily_distinct_counts') :
            /\ t.gpu_group = "all" =>
                 CountsNodesOnceWithMax(t, { r \in base(node_plan) : day(r) = t.day })
            /\ t.gpu_group = "any_gpu" =>
                 CountsNodesOnceWithMax(t, { r \in base(node_plan) : day(r) = t.day /\ ~NoGpuClass(r) })
       /\ \A t \in NewRows(hourly_distinct_counts, hourly_distinct_counts') :
            /\ t.gpu_group = "all" =>
                 CountsNodesOnceWithMax(t, { r \in base(node_plan) : hour(r) = t.hour })
            /\ t.gpu_group = "any_gpu" =>
                 CountsNodesOnceWithMax(t, { r \in base(node_plan) : hour(r) = t.hour /\ ~NoGpuClass(r) })]_vars

\* stop_at lies in the hour that starts at second h, in the day that starts
\* at second d
InHour(r, h) ==
    /\ h % SecondsPerHour = 0
    /\ h * MsPerSecond <= r.stop_at /\ r.stop_at < (h + SecondsPerHour) * MsPerSecond
InDay(r, d) ==
    /\ d % SecondsPerDay = 0
    /\ d * MsPerSecond <= r.stop_at /\ r.stop_at < (d + SecondsPerDay) * MsPerSecond

\* C8: when a run writes rows, every record falls into exactly one written
\* hour (day) bucket, the one that contains its stop_at whatever its
\* start_at, and the all row of a bucket holds the whole duration, invoice
\* amount and resource hours (in the distinct-count tables: the nodes) of
\* exactly the records whose stop_at lies in the bucket
C8_BucketByStopAt ==
    [][LET recs == base(node_plan)
           S == { t \in NewRows(hourly_gpu_stats, hourly_gpu_stats') : t.gpu_group = "all" }
           D == { t \in NewRows(daily_distinct_counts, daily_distinct_counts') : t.gpu_group = "all" }
           H == { t \in NewRows(hourly_distinct_counts, hourly_distinct_counts') : t.gpu_group = "all" }
       IN  /\ S # {} => \A r \in recs : Cardinality({ t \in S : InHour(r, t.hour) }) = 1
           /\ \A t \in S :
                LET M == { r \in recs : InHour(r, t.hour) }
                IN  /\ t.total_transaction_count = Cardinality(M)
                    /\ t.total_time_seconds
                         = RatSum(M, [r \in M |-> Rat(r.stop_at - r.start_at, MsPerSecond)])
                    /\ t.total_invoice_amount = IntSum(M, [r \in M |-> r.invoice_amount])
                    /\ t.total_ram_hours = RatSum(M, [r \in M |-> ram_hours(r)])
                    /\ t.total_cpu_hours = RatSum(M, [r \in M |-> cpu_hours(r)])
           /\ D # {} => \A r \in recs : Cardinality({ t \in D : InDay(r, t.day) }) = 1
           /\ \A t \in D :
                t.unique_node_count = Cardinality({ r.node_id : r \in { q \in recs : InDay(q, t.day) } })
           /\ H # {} => \A r \in recs : Cardinality({ t \in H : InHour(r, t.hour) }) = 1
           /\ \A t \in H :
                t.unique_node_count = Cardinality({ r.node_id : r \in { q \in recs : InHour(q, t.hour) } })]_vars

\* a record that starts in one hour and day and stops in the next is stored
\* with its whole duration in the hour of its stop_at, and in the day of its
\* stop_at
C8_Witness ==
    \E r \in node_plan :
        /\ ~InHour([r EXCEPT !.stop_at = r.start_at], hour(r))
        /\ ~InDay([r EXCEPT !.stop_at = r.start_at], day(r))
        /\ \E t \in Rows(hourly_gpu_stats) :
             /\ t.gpu_group = "all" /\ InHour(r, t.hour)
             /\ t.total_transaction_count = 1
             /\ t.total_time_seconds = Rat(r.stop_at - r.start_at, MsPerSecond)
        /\ \E t \in Rows(daily_distinct_counts) : t.gpu_group = "all" /\ InDay(r, t.day)

\* the group rows of bucket b in the stats rows S count the records recs of
\* the bucket as the routing rule says
StatsRouted(S, b, recs) ==
    /\ TransactionsOf(GroupRows(S, b, "all")) = Cardinality(recs)
    /\ TransactionsOf(GroupRows(S, b, "no_gpu")) = Cardinality({ r \in recs : NoGpuClass(r) })
    /\ TransactionsOf(GroupRows(S, b, "any_gpu")) = Cardinality({ r \in recs : ~NoGpuClass(r) })
    /\ \A t \in ClassRows(S, b) :
         /\ t.gpu_group # NULL /\ t.gpu_group # ""
         /\ t.total_transaction_count = Cardinality({ r \in recs : r.gpu_class_id = t.gpu_group })
    /\ \A r \in recs : ~NoGpuClass(r) => \E t \in ClassRows(S, b) : t.gpu_group = r.gpu_class_id

\* the same for the distinct-count rows S, which count nodes
NodesRouted(S, b, recs) ==
    /\ NodeCountOf(GroupRows(S, b, "all")) = Cardinality({ r.node_id : r \in recs })
    /\ NodeCountOf(GroupRows(S, b, "no_gpu"))
         = Cardinality({ r.node_id : r \in { q \in recs : NoGpuClass(q) } })
    /\ NodeCountOf(GroupRows(S, b, "any_gpu"))
         = Cardinality({ r.node_id : r \in { q \in recs : ~NoGpuClass(q) } })
    /\ \A t \in ClassRows(S, b) :
         /\ t.gpu_group # NULL /\ t.gpu_group # ""
         /\ t.unique_node_count
              = Cardinality({ r.node_id : r \in { q \in recs : q.gpu_class_id = t.gpu_group } })
    /\ \A r \in recs : ~NoGpuClass(r) => \E t \in ClassRows(S, b) : t.gpu_group = r.gpu_class_id

DurationHours(r) == Rat(r.stop_at - r.start_at, MsPerSecond * SecondsPerHour)

\* the records of node_plan that the stats row t aggregates
MembersOf(t) ==
    { r \in base(node_plan) :
        /\ hour(r) = t.hour
        /\ \/ t.gpu_group = "all"
           \/ t.gpu_group = "any_gpu" /\ ~NoGpuClass(r)
           \/ t.gpu_group = "no_gpu" /\ NoGpuClass(r)
           \/ t.gpu_group = r.gpu_class_id }

\* C10: in every stats row a run writes, total_cpu_hours is the sum over the
\* row's records of cpu * duration_hours / 1000 and total_ram_hours the sum
\* of ram * duration_hours / 1024
C10_ResourceHours ==
    [][\A t \in NewRows(hourly_gpu_stats, hourly_gpu_stats') :
         LET M == MembersOf(t)
         IN  /\ t.total_cpu_hours
                  = RatSum(M, [r \in M |-> RatDivInt(RatMulInt(DurationHours(r), r.cpu), 1000)])
             /\ t.total_ram_hours
                  = RatSum(M, [r \in M |-> RatDivInt(RatMulInt(DurationHours(r), r.ram), 1024)])]_vars

(***************************************************************************)
(* Malformed rows                                                          *)
(***************************************************************************)
\* the records with a node_id and a duration that is not negative
WellFormed(plans) == { r \in plans : r.node_id # NULL /\ r.stop_at >= r.start_at }

\* C11: the rows a run writes to each rollup table are the rows aggregated
\* from the well-formed records of node_plan alone: a record with stop_at
\* before start_at or without node_id contributes to no row, and the
\* well-formed records are aggregated and written
C11_MalformedSkipped ==
    [][/\ hourly_gpu_stats' # hourly_gpu_stats =>
            NewRows(hourly_gpu_stats, hourly_gpu_stats')
                = Rows(hourly_gpu_stats_data(WellFormed(node_plan)))
       /\ daily_distinct_counts' # daily_distinct_counts =>
            NewRows(daily_distinct_counts, daily_distinct_counts')
                = Rows(daily_distinct_data(WellFormed(node_plan)))
       /\ hourly_distinct_counts' # hourly_distinct_counts =>
            NewRows(hourly_distinct_counts, hourly_distinct_counts')
                = Rows(hour_distinct_data(WellFormed(node_plan)))]_vars

(***************************************************************************)
(* Properties of get_metrics_by_gpu                                        *)
(***************************************************************************)
Answered == response.status = 200

\* the datasets of the response other than Other, and those labelled Other
Individual == { j \in 1..Len(response.datasets) : response.datasets[j].label # Other }
Others == { j \in 1..Len(response.datasets) : response.datasets[j].label = Other }

\* the sum of the fetched values (None as 0) of the rows of index in I
FetchedSum(I) ==
    IntSum(I, [ i \in 1..Len(rows) |-> IF rows[i][3] = << >> THEN 0 ELSE rows[i][3][1] ])

\* C12: in every response of get_metrics_by_gpu, by GPU class and by VRAM
\* tier, at every position of the labels axis the values of all datasets
\* (the individual ones and Other, if there is one) add up to the sum of
\* all fetched values of that timestamp
C12_TopNOtherComplete ==
    Answered =>
        \A x \in 1..Len(response.labels) :
            IntSum(1..Len(response.datasets),
                   [ j \in 1..Len(response.datasets) |-> response.datasets[j].data[x] ])
              = FetchedSum({ i \in 1..Len(rows) : rows[i][2] = response.labels[x] })

\* a response by VRAM tier with five tiers and an Other series that is not 0
C12_Witness ==
    /\ Answered
    /\ Cardinality(Individual) = 5
    /\ \E j \in Individual : response.datasets[j].label = <<"2", "4", "G", "B">>
    /\ \E j \in Others : \E x \in 1..Len(response.labels) : response.datasets[j].data[x] # 0

\* the grouping key of every fetched row in the mode of the request, and the
\* keys folded into Other
KeysOf == IF request.group_by = "vram" THEN vram_keys ELSE gpu_keys
Folded ==
    LET K == KeysOf
        tops == top_names(K)
    IN  { i \in 1..Len(rows) : K[i] \notin tops }

\* C13 as stated: there is a dataset labelled Other exactly when some value
\* of a group outside the top five is not zero
C13_OtherIffNonZeroValue ==
    Answered =>
        LET F == Folded
        IN  Others # {} <=> \E i \in F : FetchedSum({i}) # 0

\* C13 amended: there is at most one dataset labelled Other, and there is
\* one exactly when at some timestamp the values of the groups outside the
\* top five add up to something other than zero; so there is none when all
\* those values are zero or there are at most five groups, and there is one
\* when some of those values is not zero and none is negative
C13_OtherIffNonZeroSum ==
    Answered =>
        LET F == Folded
        IN  /\ Cardinality(Others) <= 1
            /\ Others # {} <=>
                 \E ts \in { rows[i][2] : i \in 1..Len(rows) } :
                     FetchedSum({ i \in F : rows[i][2] = ts }) # 0
            /\ (\A i \in F : FetchedSum({i}) = 0) => Others = {}
            /\ (\E i \in F : FetchedSum({i}) # 0) /\ (\A i \in F : FetchedSum({i}) >= 0)
                  => Others # {}

\* more than five groups were fetched, those outside the top five hold only
\* 0 and None, and the response has five datasets and no Other
C13_Witness ==
    /\ Answered
    /\ LET F == Folded
       IN  /\ F # {}
           /\ \A i \in F : FetchedSum({i}) = 0
           /\ \E i \in F : rows[i][3] = << >>
    /\ Cardinality(Individual) = 5
    /\ Others = {}

\* the label the request's mode gives the key k: the tier itself, or the
\* display name of the class, the class id where the directory has none
LabelOf(k) ==
    IF request.group_by = "vram" \/ k \notin DOMAIN gpu_class_names THEN k
    ELSE gpu_class_names[k]

\* the data array d holds, for every label, the sum of the fetched values of
\* the rows of index in I at that timestamp
Aligned(d, I) ==
    /\ Len(d) = Len(response.labels)
    /\ \A x \in 1..Len(response.labels) :
         /\ d[x] \in Int
         /\ d[x] = FetchedSum({ i \in I : rows[i][2] = response.labels[x] })

\* C14: every dataset of a response, Other included, has a data array of
\* the length of labels whose position x holds the value its group has at
\* labels[x], 0 where the group has no row or a None value
C14_Aligned ==
    Answered =>
        LET K == KeysOf
            F == Folded
        IN  /\ \A j \in Individual :
                 \E k \in { K[i] : i \in 1..Len(rows) } :
                     /\ response.datasets[j].label = LabelOf(k)
                     /\ Aligned(response.datasets[j].data, { i \in 1..Len(rows) : K[i] = k })
            /\ \A j \in Others : Aligned(response.datasets[j].data, F)

\* a response with Other in which the dataset of a group holds 0 at a
\* timestamp where the group has no row, and the dataset of another group 0
\* where its value is None
C14_Witness ==
    /\ Answered
    /\ request.group_by = "gpu"
    /\ Others # {}
    /\ \E j \in Individual :
         \E x \in 1..Len(response.labels) :
            /\ response.datasets[j].data[x] = 0
            /\ \A i \in 1..Len(rows) :
                 LabelOf(rows[i][1]) = response.datasets[j].label => rows[i][2] # response.labels[x]
    /\ \E j \in Individual :
         \E i \in 1..Len(rows) :
            /\ rows[i][3] = << >>
            /\ LabelOf(rows[i][1]) = response.datasets[j].label
            /\ \E x \in 1..Len(response.labels) :
                 response.labels[x] = rows[i][2] /\ response.datasets[j].data[x] = 0

\* C15: the labels of a response are exactly the timestamps that occur in
\* the fetched rows, of whatever group, each once and in strictly ascending
\* order
C15_SharedAxis ==
    Answered =>
        /\ { response.labels[x] : x \in 1..Len(response.labels) }
             = { rows[i][2] : i \in 1..Len(rows) }
        /\ \A x, y \in 1..Len(response.labels) : x < y => response.labels[x] < response.labels[y]

\* a response whose last label is a timestamp that only rows folded into
\* Other have
C15_Witness ==
    /\ Answered
    /\ Others # {}
    /\ Len(response.labels) = 3
    /\ LET F == Folded
       IN  \A i \in 1..Len(rows) : rows[i][2] = response.labels[3] => i \in F

\* C16: a response has min(5, number of groups) individual datasets, each of
\* another group; the total of every group with a dataset of its own, summed
\* over all fetched rows, is at least the total of every group without one;
\* and Other, when present, holds the rows of exactly the groups without a
\* dataset of their own (when absent, those rows add up to 0 everywhere)
C16_TopFive ==
    Answered =>
        LET K == KeysOf
            G == { K[i] : i \in 1..Len(rows) }
            T == { k \in G : \E j \in Individual : response.datasets[j].label = LabelOf(k) }
            Total == [ k \in G |-> FetchedSum({ i \in 1..Len(rows) : K[i] = k }) ]
            Rest == { i \in 1..Len(rows) : K[i] \notin T }
        IN  /\ Cardinality(Individual) <= 5
            /\ Cardinality(Individual) = (IF Cardinality(G) < 5 THEN Cardinality(G) ELSE 5)
            /\ Cardinality(T) = Cardinality(Individual)
            /\ \A t \in T : \A o \in G \ T : Total[t] >= Total[o]
            /\ \A j \in Others :
                 \A x \in 1..Len(response.labels) :
                    response.datasets[j].data[x]
                      = FetchedSum({ i \in Rest : rows[i][2] = response.labels[x] })
            /\ Others = {} =>
                 \A x \in 1..Len(response.labels) :
                    FetchedSum({ i \in Rest : rows[i][2] = response.labels[x] }) = 0

\* seven groups were fetched, five have a dataset, the others are in Other,
\* and one of them has the same total as a group with a dataset
C16_Witness ==
    /\ Answered
    /\ request.group_by = "gpu"
    /\ Cardinality({ rows[i][1] : i \in 1..Len(rows) }) = 7
    /\ Cardinality(Individual) = 5
    /\ Others # {}
    /\ LET F == Folded
       IN  \E i \in F : \E h \in (1..Len(rows)) \ F :
              FetchedSum({ n \in 1..Len(rows) : rows[n][1] = rows[i][1] })
                   = FetchedSum({ n \in 1..Len(rows) : rows[n][1] = rows[h][1] })

\* inner is "<n> GB": digits, then white space if any, then g or G, b or B
IsGbPart(inner) ==
    /\ Len(inner) >= 3
    /\ inner[Len(inner) - 1] \in {"g", "G"}
    /\ inner[Len(inner)] \in {"b", "B"}
    /\ \E d \in 1..(Len(inner) - 2) :
         /\ \A p \in 1..d : inner[p] \in Digits
         /\ \A p \in (d + 1)..(Len(inner) - 2) : inner[p] \in Whitespace

\* the tier of a display name: the first parenthesised "<n> GB" part without
\* its spaces, Unknown when the name has no such part
TierOfName(name) ==
    LET parts == { ab \in (1..Len(name)) \X (1..Len(name)) :
                     /\ ab[1] < ab[2]
                     /\ name[ab[1]] = "(" /\ name[ab[2]] = ")"
                     /\ IsGbPart(SubSeq(name, ab[1] + 1, ab[2] - 1)) }
    IN  IF parts = {} THEN Unknown
        ELSE LET ab == CHOOSE p \in parts : \A q \in parts : p[1] <= q[1]
             IN  SelectSeq(SubSeq(name, ab[1] + 1, ab[2] - 1), LAMBDA c : c # " ")

\* the tier of a class: that of its display name, Unknown without an entry
TierOf(g) ==
    IF g \in DOMAIN gpu_class_names THEN TierOfName(gpu_class_names[g]) ELSE Unknown

\* C17: in a response grouped by VRAM every individual dataset is that of a
\* tier of a fetched class and holds, per timestamp, the sum of the values
\* of all classes of the tier; there are min(5, number of tiers) of them,
\* the tiers with a dataset have totals at least those of the others, and
\* Other holds the classes of the other tiers
C17_VramTiers ==
    (Answered /\ request.group_by = "vram") =>
        LET Kt == [ i \in 1..Len(rows) |-> TierOf(rows[i][1]) ] \o << >>
            V == { Kt[i] : i \in 1..Len(rows) }
            T == { v \in V : \E j \in Individual : response.datasets[j].label = v }
            Total == [ v \in V |-> FetchedSum({ i \in 1..Len(rows) : Kt[i] = v }) ]
            Rest == { i \in 1..Len(rows) : Kt[i] \notin T }
        IN  /\ \A j \in Individual :
                 /\ response.datasets[j].label \in V
                 /\ Aligned(response.datasets[j].data,
                            { i \in 1..Len(rows) : Kt[i] = response.datasets[j].label })
            /\ Cardinality(Individual) = (IF Cardinality(V) < 5 THEN Cardinality(V) ELSE 5)
            /\ Cardinality(T) = Cardinality(Individual)
            /\ \A t \in T : \A o \in V \ T : Total[t] >= Total[o]
            /\ \A j \in Others : Aligned(response.datasets[j].data, Rest)
            /\ Others = {} =>
                 \A x \in 1..Len(response.labels) :
                    FetchedSum({ i \in Rest : rows[i][2] = response.labels[x] }) = 0

\* a response by VRAM with six tiers fetched: the dataset 24GB adds the two
\* classes named "(24 GB)" and "(24GB)", a class without entry is under
\* Unknown, and one tier is in Other
C17_Witness ==
    /\ Answered
    /\ request.group_by = "vram"
    /\ Others # {}
    /\ \E j \in Individual :
         /\ response.datasets[j].label = <<"2", "4", "G", "B">>
         /\ response.datasets[j].data[1] = 2 * MaxValue + 1
    /\ \E i \in 1..Len(rows) : rows[i][1] \notin DOMAIN gpu_class_names
    /\ \E j \in 1..Len(response.datasets) : response.datasets[j].label = Unknown

\* C18: a request grouped by GPU is answered whatever the directory holds,
\* and every class among the top ones has a dataset with its data, labelled
\* with the display name of the class when the directory has an entry for
\* it and with the class id otherwise
C18_LabelFallback ==
    request.endpoint = "get_metrics_by_gpu" /\ request.group_by = "gpu" =>
        /\ Answered
        /\ LET tops == top_names(gpu_keys)
           IN  /\ Cardinality(Individual) = Cardinality(tops)
               /\ \A g \in tops :
                    \E j \in Individual :
                       /\ g \in DOMAIN gpu_class_names
                            => response.datasets[j].label = gpu_class_names[g]
                       /\ g \notin DOMAIN gpu_class_names
                            => response.datasets[j].label = g
                       /\ Aligned(response.datasets[j].data,
                                  { i \in 1..Len(rows) : rows[i][1] = g })

\* a response by GPU with a dataset labelled by a display name and one
\* labelled by the id of a class the directory lacks
C18_Witness ==
    /\ Answered
    /\ request.group_by = "gpu"
    /\ gpu_class_names # << >>
    /\ \E j \in Individual : response.datasets[j].label = GroupIds[7]
    /\ \E j \in Individual : response.datasets[j].label = gpu_class_names[GroupIds[1]]

(***************************************************************************)
(* Properties of the answers of the query endpoints                        *)
(***************************************************************************)
\* the time bucket of a stored row, and the bucket the answer shows it in:
\* the hour for the period day, the day for the longer periods
Bucket(r) == IF "day" \in DOMAIN r THEN r.day ELSE r.hour
ShownAt(r, period) == IF period = "day" THEN Bucket(r) ELSE midnight(Bucket(r))

\* the table that holds a metric at the granularity of the period
SourceRows(metric, period) ==
    IF metric \in stats_metrics THEN BagToSet(hourly_gpu_stats)
    ELSE IF period = "day" THEN BagToSet(hourly_distinct_counts)
    ELSE BagToSet(daily_distinct_counts)

\* the rows of a metric from the bound on, of one group, and of the classes
Kept(metric, period, bound, gpu) ==
    { r \in SourceRows(metric, period) : r.gpu_group = gpu /\ Bucket(r) >= bound }
KeptClasses(metric, period, bound) ==
    { r \in SourceRows(metric, period) :
        r.gpu_group \notin {All, AnyGpu, NoGpu} /\ Bucket(r) >= bound }

\* the lookback windows: from the current time, and from 00:00 of its day
\* for the periods longer than a day
FromNow == [ period \in DOMAIN timedelta |-> now - timedelta[period] ]
FromMidnight ==
    [ period \in DOMAIN timedelta |->
        IF period = "day" THEN now - timedelta[period]
        ELSE midnight(now - timedelta[period]) ]

\* every answer of stats, trends and gpu_stats is made of the rows from
\* since[period] on and of no other row: the sums of stats, the points of
\* the series of trends, and the timestamps of the results by GPU and VRAM
Lookback(since) ==
    /\ request.endpoint = "stats" /\ response.status = 200 =>
          \A metric \in DOMAIN response.results :
             response.results[metric] =
                sum_metric(Kept(metric, request.period, since[request.period], request.gpu),
                           metric)
    /\ request.endpoint = "trends" /\ "metrics" \in DOMAIN response =>
          /\ \A metric \in DOMAIN response.metrics :
                LET K == Kept(metric, request.period, since[request.period], request.gpu)
                    series == response.metrics[metric]
                IN  /\ { series[i].x : i \in 1..Len(series) }
                          = { ShownAt(r, request.period) : r \in K }
                    /\ \A i \in 1..Len(series) :
                          series[i].y =
                             sum_metric({ r \in K : ShownAt(r, request.period) = series[i].x },
                                        metric)
          /\ \A call \in DOMAIN response.by_gpu :
                Range(response.by_gpu[call].labels)
                   = { ShownAt(r, request.period) :
                         r \in KeptClasses(call[2], request.period, since[request.period]) }
    /\ request.endpoint = "gpu_stats" /\ response.status = 200 =>
          Range(response.labels)
             = { ShownAt(r, request.period) :
                   r \in KeptClasses(request.metric, request.period, since[request.period]) }

\* C19 (as stated): the answers of stats, trends and gpu_stats are made of
\* the rows not older than the current time minus 24 hours for day, 7 days
\* for week, 14 days for two_weeks and 31 days for month, in hourly buckets
\* for day and daily buckets for the longer periods
C19_WindowFromNow == Lookback(FromNow)

\* C19 (amended): the lower bound is the current time minus 24 hours for
\* day, and 00:00 of the day 7, 14 or 31 days before the current time for
\* week, two_weeks and month; the answers are made of the rows from that
\* bound on, in hourly buckets for day and daily buckets otherwise
C19_WindowFromMidnight == Lookback(FromMidnight)

\* stats has answered for a week at 05:30 with the sum of a row stored for
\* 00:00 seven days before, leaving out a row of the hour before
C19_Witness ==
    /\ request.endpoint = "stats"
    /\ response.status = 200
    /\ request.period = "week"
    /\ \E r, q \in BagToSet(hourly_gpu_stats) :
          /\ r.gpu_group = request.gpu /\ q.gpu_group = request.gpu
          /\ FromMidnight["week"] <= r.hour /\ r.hour < FromNow["week"]
          /\ q.hour < FromMidnight["week"]
          /\ response.results["total_time_hours"] = r.total_time_hours

\* the last request had a period, a metric or a sort key that no reading of
\* the endpoint supports
InvalidArgument ==
    \/ /\ request.endpoint \in {"stats", "trends"}
       /\ request.period \notin Range(allowed_periods)
    \/ /\ request.endpoint = "gpu_stats"
       /\ \/ request.period \notin DOMAIN timedelta
          \/ request.metric \notin stats_metrics \cup distinct_metrics
    \/ /\ request.endpoint = "transactions"
       /\ request.sort_by \notin DOMAIN sort_columns

\* C20: a request to /metrics/stats, /metrics/trends, /metrics/gpu_stats or
\* /metrics/transactions with an unsupported period, metric or sort key is
\* answered with status 400 and the list of the allowed values, and no
\* query has been executed for it
C20_InvalidRejected ==
    InvalidArgument =>
        /\ response.status = 400
        /\ "detail" \in DOMAIN response
        /\ response.detail.allowed # << >>
        /\ executed = << >>

\* the groups that are ahead of fewer than five others, a group being ahead
\* of another when its total is larger, or equal and its first row comes
\* earlier in the fetched rows
Selected ==
    LET K == KeysOf
        G == { K[i] : i \in 1..Len(rows) }
        Total == [ k \in G |-> FetchedSum({ i \in 1..Len(rows) : K[i] = k }) ]
        First == [ k \in G |-> CHOOSE i \in 1..Len(rows) :
                                  K[i] = k /\ \A h \in 1..Len(rows) : K[h] = k => i <= h ]
    IN  { k \in G : Cardinality({ g \in G : \/ Total[g] > Total[k]
                                            \/ Total[g] = Total[k] /\ First[g] < First[k] }) < 5 }

\* C27: the groups with a dataset of their own are the five first in the
\* ranking by total in which, of groups with equal totals, the one met first
\* in the fetched rows is first; Other holds the rows of all other groups;
\* and the datasets are the same set whatever the order the set of the top
\* names is iterated in
C27_TieBreakFirstMet ==
    Answered =>
        LET K == KeysOf
            S == Selected
            Rest == { i \in 1..Len(rows) : K[i] \notin S }
        IN  /\ { response.datasets[j].label : j \in Individual } = { LabelOf(k) : k \in S }
            /\ \A j \in Others :
                 \A x \in 1..Len(response.labels) :
                    response.datasets[j].data[x]
                      = FetchedSum({ i \in Rest : rows[i][2] = response.labels[x] })
            /\ \A set_order \in {"forward", "backward"} :
                 Range(get_metrics_by_gpu(request.group_by, set_order).datasets)
                    = Range(response.datasets)

\* a response with Other in which a group with a dataset of its own and a
\* group in Other have equal totals
C27_Witness ==
    /\ Answered
    /\ Others # {}
    /\ LET K == KeysOf
           S == Selected
       IN  \E i, h \in 1..Len(rows) :
              /\ K[i] \in S
              /\ K[h] \notin S
              /\ FetchedSum({ n \in 1..Len(rows) : K[n] = K[i] })
                   = FetchedSum({ n \in 1..Len(rows) : K[n] = K[h] })

\* the metrics of the last request, to stats or trends, for which the store
\* holds no row of the requested group in the window of the period
MissingMetrics ==
    { metric \in (IF request.endpoint = "stats" THEN Range(summary_metrics)
                  ELSE Range(trend_metrics)) :
        Kept(metric, request.period, FromMidnight[request.period], request.gpu) = {} }

\* C26: a request to stats or trends with an allowed period, for which the
\* store holds no row of some metric for the period and the group, is
\* answered with status 404 and the metrics that are missing
C26_NotFound ==
    /\ request.endpoint \in {"stats", "trends"}
    /\ request.period \in Range(allowed_periods)
    /\ response.status # 0
    /\ MissingMetrics # {}
    => /\ response.status = 404
       /\ "missing" \in DOMAIN response
       /\ response.missing = MissingMetrics

(***************************************************************************)
(* Keys of the rows of one run                                             *)
(***************************************************************************)
\* no two rows of data have one (time_bucket, gpu_group) key
KeyOnce(data) ==
    \A d \in BagToSet(data) :
        /\ data[d] = 1
        /\ \A e \in BagToSet(data) : row_key(d) = row_key(e) => d = e

\* C30: the rows each query of a run hands to its insert hold every
\* (time_bucket, gpu_group) key at most once, whatever the gpu_class_id of
\* the records, 'all', 'any_gpu' and 'no_gpu' included
C30_KeyOncePerRun ==
    [][\A p \in Procs :
          /\ pc[p] = "stats" /\ pc'[p] # "stats" => KeyOnce(hourly_gpu_stats_data(node_plan))
          /\ pc[p] = "daily" /\ pc'[p] # "daily" => KeyOnce(daily_distinct_data(node_plan))
          /\ pc[p] = "hourly" /\ pc'[p] # "hourly" => KeyOnce(hour_distinct_data(node_plan))]_vars

(***************************************************************************)
(* Properties of the ingest loop                                           *)
(***************************************************************************)
\* C23: the process of the ingest loop never ends; whenever a step of
\* main() has raised, the error has been printed and the loop is at its
\* sleep or beyond; and again and again a run begins
C23_LoopSurvives ==
    /\ [](loop_pc # "terminated")
    /\ [](raised_at # "none" => logged = "error" /\ loop_pc \in {"sleep", "while"})
    /\ []<>(loop_pc = Steps[1])

\* a run has begun after a run that raised
C23_Witness ==
    /\ loop_pc = Steps[1]
    /\ logged = "error"

\* C24: a run that is not the first begins only after the two hours have
\* been slept since the run before ended, whether that run printed done or
\* error
C24_FullInterval ==
    [][loop_pc = "while" /\ loop_pc' = Steps[1] /\ logged # "none" => slept >= 2 * 60 * 60]_vars

\* a run has begun two hours after a run that raised at its first step
C24_Witness ==
    /\ loop_pc = Steps[1]
    /\ logged = "error"
    /\ slept = 2 * 60 * 60
    /\ snapshots = 0

(***************************************************************************)
(* Properties of the cache in front of the query endpoints                 *)
(***************************************************************************)
\* what /metrics/stats and /metrics/transactions answer when computed on the
\* rows stored now
direct_response(req) ==
    CASE req.endpoint = "stats" ->
            IF req.period \notin Range(allowed_periods) THEN invalid_period
            ELSE [status |-> 200, results |-> stats_results(req.period, req.gpu)]
      [] req.endpoint = "transactions" ->
            get_transactions(req.limit, req.cursor, req.direction, req.sort_by,
                             req.sort_order).response

\* a step of a request: the clock and the stored rows stay as they are
RequestStep == now' = now /\ tables' = tables

\* the wrapper has returned to the framework
Returned == request.endpoint # "none" /\ ~Pending

\* C21: in a request in which the get or the set of the cache client has
\* raised, or that is served with no cache client, func is run exactly
\* once and the answer is the one func computes on the stored rows: for
\* /metrics/gpu_stats the result of get_metrics_by_gpu for the rows it has
\* fetched, or the 500 of its KeyError
C21_FallThrough ==
    [][ /\ RequestStep
        /\ wrapper'.get \in {"raised", "absent"} \/ wrapper'.set = "raised"
        => /\ wrapper'.func = 1
           /\ request'.endpoint \in {"stats", "transactions"}
                 => response' = direct_response(request')
           /\ request'.endpoint = "gpu_stats" /\ Returned'
                 => IF get_query_parameters(request'.metric, request'.period).raised
                    THEN response' = internal_server_error
                    ELSE \E set_order \in {"forward", "backward"} :
                            response' = get_metrics_by_gpu("gpu", set_order) ]_vars

\* /metrics/stats has been answered with 200 by func although the key of the
\* request is in the cache: the get has raised, and so has the set
C21_Witness ==
    /\ request.endpoint = "stats"
    /\ response.status = 200
    /\ wrapper = [get |-> "raised", func |-> 1, set |-> "raised"]
    /\ \E e \in live(cache) : e.key = full_cache_key(request)

\* C22: with a cache client, /metrics/stats and /metrics/transactions answer
\* what they answer when computed on the rows stored at the time of the
\* request, and the labels /metrics/gpu_stats sends are written as the
\* framework writes those of the computed result
C22_CacheTransparent ==
    [][ RequestStep /\ redis_client # "none" /\ Returned'
        => /\ request'.endpoint \in {"stats", "transactions"}
                 => response' = direct_response(request')
           /\ request'.endpoint = "gpu_stats" /\ response'.status = 200
                 => LET sent == jsonable_encoder(response', request', wrapper'.get = "hit")
                    IN  \A i \in 1..Len(sent.labels) :
                           sent.labels[i] = isoformat(sent.labels[i].text_of,
                                                      datetime_labels(request')) ]_vars

(***************************************************************************)
(* Properties of the pages of /metrics/transactions                        *)
(***************************************************************************)
\* r comes no later than s in the order the request asks for
NoLater(r, s, req) ==
    IF req.sort_order = "asc"
    THEN r[sort_columns[req.sort_by]] <= s[sort_columns[req.sort_by]]
    ELSE r[sort_columns[req.sort_by]] >= s[sort_columns[req.sort_by]]

\* the step from the first page to the one asked for with its next_cursor
FirstToSecond ==
    /\ Paged
    /\ request.direction = "next" /\ request.cursor = None
    /\ response.next_cursor # None
    /\ request' = [request EXCEPT !.cursor = response.next_cursor]

\* C25: the request with the next_cursor of the first page is answered with
\* a page that has no row of the first page and is full unless the table is
\* exhausted, and the two pages together are in the requested order and come
\* before every row that is in neither
C25_Contiguous ==
    [][ FirstToSecond =>
        /\ response'.status = 200
        /\ LET both == response.transactions \o response'.transactions
               seen == Range(both)
               left == Cardinality(placeholder_transactions) - Len(response.transactions)
           IN  /\ Cardinality(seen) = Len(both)
               /\ Len(response'.transactions) =
                     IF left < request.limit THEN left ELSE request.limit
               /\ \A i, j \in 1..Len(both) : i < j => NoLater(both[i], both[j], request)
               /\ \A r \in seen, s \in placeholder_transactions \ seen :
                     NoLater(r, s, request) ]_vars

\* C28: every request of the chain that starts with direction=next and
\* cursor=null and goes on with the next_cursor returned is answered with a
\* page; its next_cursor, when it has one, is older than the cursor of the
\* request, so that no cursor comes twice and the chain ends with a page
\* without next_cursor; and an empty page has no cursor
C28_ChainEnds ==
    request.endpoint = "transactions" /\ request.direction = "next" =>
        /\ response.status = 200
        /\ request.cursor # None /\ response.next_cursor # None
              => response.next_cursor[1] < request.cursor[1]
        /\ response.transactions = << >> =>
              response.next_cursor = None /\ response.prev_cursor = None

\* C29: from the page that follows the first page, direction=prev with its
\* prev_cursor gives the first page again, in the same order
C29_RoundTrip ==
    [][ /\ Paged
        /\ request.direction = "next" /\ request.cursor # None
        /\ request.cursor = get_transactions(request.limit, None, "next", request.sort_by,
                                             request.sort_order).response.next_cursor
        /\ response.prev_cursor # None
        /\ request' = [request EXCEPT !.cursor = response.prev_cursor, !.direction = "prev"]
        => response'.transactions =
              get_transactions(request.limit, None, "next", request.sort_by,
                               request.sort_order).response.transactions ]_vars

====
